---- MODULE Spec2Model ----
(***************************************************************************)
(* Region change-detection engine of eve-apm-preview                      *)
(* (src/src/regionalertmonitor.cpp): the per-rule alert state machine     *)
(* driven by RegionAlertMonitor::pollRules, with the frame preprocessing  *)
(* and diff scoring it uses, the failure back-off and the configuration   *)
(* reload.                                                                 *)
(*                                                                         *)
(* Representation.  A QString is a sequence of one-character strings; a   *)
(* program-generated identifier that contains no white space is carried   *)
(* as one element (it holds no capital letter and no place marker); a    *)
(* character that a TLA+ string cannot hold is the token of its code      *)
(* point ("U+00A0"); case mappings are those of Unicode 14.  A QImage is  *)
(* a record [width,                                                        *)
(* height, bands]: bands of equal scan lines, each a sequence of runs of  *)
(* equal pixels; the null image has no band.  A raw (captured) image      *)
(* carries <<r, g, b>> triples, a preprocessed one carries 8-bit gray     *)
(* values.  A qreal is an IEEE 754 binary64 value [sign, mant, exp] and   *)
(* its arithmetic rounds to nearest even; a rule's coordinates are given  *)
(* in units of 1e-5 and converted to the nearest double.  The score of    *)
(* changedPercent is carried as the exact fraction [num, den].  Time is   *)
(* in milliseconds.  A number written at a place marker with "L" follows  *)
(* the number settings of the system locale.  The monitor lives from its  *)
(* construction to its destructor; no member function runs after that.    *)
(***************************************************************************)
EXTENDS Integers, Sequences, FiniteSets, TLC

VARIABLES
  m_enabled,          \* RegionAlertMonitor::m_enabled
  m_cooldownMs,       \* RegionAlertMonitor::m_cooldownMs
  m_rules,            \* RegionAlertMonitor::m_rules
  m_characterWindows, \* RegionAlertMonitor::m_characterWindows
  m_ruleStateById,    \* RegionAlertMonitor::m_ruleStateById
  m_pollIntervalMs,   \* RegionAlertMonitor::m_pollIntervalMs
  timerActive,        \* m_pollTimer.isActive()
  now,                \* the value QDateTime::currentMSecsSinceEpoch() last returned to a tick
  emitted,            \* regionAlertTriggered events emitted by the last tick, in order
  evalLog,            \* what the last tick did for each rule it evaluated, in order
  history,            \* per rule key with a state entry: the record of its past alerts
  tickInputs,         \* what the platform delivered to the last tick, where it is observed
  tickStates,         \* the rule states the last tick started from, where they are observed
  m_internalCaptureSurfacesByCharacter, \* RegionAlertMonitor's capture surfaces by normalized name
  liveResources,      \* the host windows and mirror registrations alive in the platform
  baselineRegions,    \* per rule key: the region its stored baseline was captured from, where it is observed
  lastCall,           \* the call of a static function made on its own: arguments and result
  eventLoop,          \* the time in the event loop and the deadline of m_pollTimer, where they are observed
  captureSurface,     \* one InternalRegionAlertCaptureSurface with the window manager's mirrors, where they are observed
  lifetime,           \* whether the RegionAlertMonitor exists, and what its destructor gave back
  locale              \* the number settings of the locale QLocale() stands for

monitorVars ==
  <<m_enabled, m_cooldownMs, m_rules, m_characterWindows, m_ruleStateById,
    m_pollIntervalMs, timerActive, now, emitted, evalLog, history, tickInputs,
    tickStates, m_internalCaptureSurfacesByCharacter, liveResources,
    baselineRegions, lifetime>>

vars == <<monitorVars, lastCall, eventLoop, captureSurface, locale>>

-----------------------------------------------------------------------------
(* Bounds of the model *)

\* latest timestamp at which a tick is explored
MaxNow == 1000

(* Program constants *)
kPreprocessSize == 96

kConsecutiveFramesRequired == 2

kCaptureFailureResetThreshold == 3

kPixelDeltaThreshold == 20

-----------------------------------------------------------------------------
(* QString helpers *)

\* QChar::isSpace(): U+0009..U+000D, U+0020, U+0085, U+00A0 and the
\* characters of category Zs.  A character a TLA+ string cannot hold is
\* written as the token of its code point.
WhiteSpace ==
  { " ", "\t", "\n", "\f", "\r", "U+000B", "U+0085", "U+00A0", "U+1680",
    "U+2000", "U+2001", "U+2002", "U+2003", "U+2004", "U+2005", "U+2006",
    "U+2007", "U+2008", "U+2009", "U+200A", "U+2028", "U+2029", "U+202F",
    "U+205F", "U+3000" }

IsSpace(c) == c \in WhiteSpace

\* QString::trimmed(): white space removed from both ends
RECURSIVE TrimLeft(_)
TrimLeft(s) ==
  IF s = <<>> THEN <<>>
  ELSE IF IsSpace(Head(s)) THEN TrimLeft(Tail(s)) ELSE s

RECURSIVE TrimRight(_)
TrimRight(s) ==
  IF s = <<>> THEN <<>>
  ELSE IF IsSpace(s[Len(s)]) THEN TrimRight(SubSeq(s, 1, Len(s) - 1)) ELSE s

trimmed(s) == TrimRight(TrimLeft(s))

UpperCase ==
  <<"A", "B", "C", "D", "E", "F", "G", "H", "I", "J", "K", "L", "M",
    "N", "O", "P", "Q", "R", "S", "T", "U", "V", "W", "X", "Y", "Z">>

LowerCase ==
  <<"a", "b", "c", "d", "e", "f", "g", "h", "i", "j", "k", "l", "m",
    "n", "o", "p", "q", "r", "s", "t", "u", "v", "w", "x", "y", "z">>

HexDigits ==
  <<"0", "1", "2", "3", "4", "5", "6", "7", "8", "9", "A", "B", "C", "D", "E", "F">>

\* the hexadecimal digits of n, at least `least` of them
RECURSIVE Hex(_, _)
Hex(n, least) ==
  IF n = 0 /\ least <= 0 THEN ""
  ELSE Hex(n \div 16, least - 1) \o HexDigits[(n % 16) + 1]

\* the character of a code point where the case mappings are concerned: a
\* letter of the Latin alphabet is itself, a character beyond ASCII is the
\* token of its code point
CharOf(n) ==
  IF n \in 65..90 THEN UpperCase[n - 64]
  ELSE IF n \in 97..122 THEN LowerCase[n - 96]
  ELSE "U+" \o Hex(n, 4)

\* The simple lower-case mappings of the Unicode character database (version
\* 14), which QChar::toLower applies: <<first, last, step, difference>> maps
\* every step-th code point from first to last to the code point that lies
\* the difference above it.
LowerRanges ==
  << <<65, 90, 1, 32>>, <<192, 214, 1, 32>>, <<216, 222, 1, 32>>,
     <<256, 302, 2, 1>>, <<306, 310, 2, 1>>, <<313, 327, 2, 1>>,
     <<330, 374, 2, 1>>, <<376, 376, 1, -121>>, <<377, 381, 2, 1>>,
     <<385, 385, 1, 210>>, <<386, 388, 2, 1>>, <<390, 390, 1, 206>>,
     <<391, 391, 1, 1>>, <<393, 394, 1, 205>>, <<395, 395, 1, 1>>,
     <<398, 398, 1, 79>>, <<399, 399, 1, 202>>, <<400, 400, 1, 203>>,
     <<401, 401, 1, 1>>, <<403, 403, 1, 205>>, <<404, 404, 1, 207>>,
     <<406, 406, 1, 211>>, <<407, 407, 1, 209>>, <<408, 408, 1, 1>>,
     <<412, 412, 1, 211>>, <<413, 413, 1, 213>>, <<415, 415, 1, 214>>,
     <<416, 420, 2, 1>>, <<422, 422, 1, 218>>, <<423, 423, 1, 1>>,
     <<425, 425, 1, 218>>, <<428, 428, 1, 1>>, <<430, 430, 1, 218>>,
     <<431, 431, 1, 1>>, <<433, 434, 1, 217>>, <<435, 437, 2, 1>>,
     <<439, 439, 1, 219>>, <<440, 440, 1, 1>>, <<444, 444, 1, 1>>,
     <<452, 452, 1, 2>>, <<453, 453, 1, 1>>, <<455, 455, 1, 2>>,
     <<456, 456, 1, 1>>, <<458, 458, 1, 2>>, <<459, 475, 2, 1>>,
     <<478, 494, 2, 1>>, <<497, 497, 1, 2>>, <<498, 500, 2, 1>>,
     <<502, 502, 1, -97>>, <<503, 503, 1, -56>>, <<504, 542, 2, 1>>,
     <<544, 544, 1, -130>>, <<546, 562, 2, 1>>, <<570, 570, 1, 10795>>,
     <<571, 571, 1, 1>>, <<573, 573, 1, -163>>, <<574, 574, 1, 10792>>,
     <<577, 577, 1, 1>>, <<579, 579, 1, -195>>, <<580, 580, 1, 69>>,
     <<581, 581, 1, 71>>, <<582, 590, 2, 1>>, <<880, 882, 2, 1>>,
     <<886, 886, 1, 1>>, <<895, 895, 1, 116>>, <<902, 902, 1, 38>>,
     <<904, 906, 1, 37>>, <<908, 908, 1, 64>>, <<910, 911, 1, 63>>,
     <<913, 929, 1, 32>>, <<931, 939, 1, 32>>, <<975, 975, 1, 8>>,
     <<984, 1006, 2, 1>>, <<1012, 1012, 1, -60>>, <<1015, 1015, 1, 1>>,
     <<1017, 1017, 1, -7>>, <<1018, 1018, 1, 1>>, <<1021, 1023, 1, -130>>,
     <<1024, 1039, 1, 80>>, <<1040, 1071, 1, 32>>, <<1120, 1152, 2, 1>>,
     <<1162, 1214, 2, 1>>, <<1216, 1216, 1, 15>>, <<1217, 1229, 2, 1>>,
     <<1232, 1326, 2, 1>>, <<1329, 1366, 1, 48>>, <<4256, 4293, 1, 7264>>,
     <<4295, 4295, 1, 7264>>, <<4301, 4301, 1, 7264>>,
     <<5024, 5103, 1, 38864>>, <<5104, 5109, 1, 8>>, <<7312, 7354, 1, -3008>>,
     <<7357, 7359, 1, -3008>>, <<7680, 7828, 2, 1>>, <<7838, 7838, 1, -7615>>,
     <<7840, 7934, 2, 1>>, <<7944, 7951, 1, -8>>, <<7960, 7965, 1, -8>>,
     <<7976, 7983, 1, -8>>, <<7992, 7999, 1, -8>>, <<8008, 8013, 1, -8>>,
     <<8025, 8031, 2, -8>>, <<8040, 8047, 1, -8>>, <<8072, 8079, 1, -8>>,
     <<8088, 8095, 1, -8>>, <<8104, 8111, 1, -8>>, <<8120, 8121, 1, -8>>,
     <<8122, 8123, 1, -74>>, <<8124, 8124, 1, -9>>, <<8136, 8139, 1, -86>>,
     <<8140, 8140, 1, -9>>, <<8152, 8153, 1, -8>>, <<8154, 8155, 1, -100>>,
     <<8168, 8169, 1, -8>>, <<8170, 8171, 1, -112>>, <<8172, 8172, 1, -7>>,
     <<8184, 8185, 1, -128>>, <<8186, 8187, 1, -126>>, <<8188, 8188, 1, -9>>,
     <<8486, 8486, 1, -7517>>, <<8490, 8490, 1, -8383>>,
     <<8491, 8491, 1, -8262>>, <<8498, 8498, 1, 28>>, <<8544, 8559, 1, 16>>,
     <<8579, 8579, 1, 1>>, <<9398, 9423, 1, 26>>, <<11264, 11311, 1, 48>>,
     <<11360, 11360, 1, 1>>, <<11362, 11362, 1, -10743>>,
     <<11363, 11363, 1, -3814>>, <<11364, 11364, 1, -10727>>,
     <<11367, 11371, 2, 1>>, <<11373, 11373, 1, -10780>>,
     <<11374, 11374, 1, -10749>>, <<11375, 11375, 1, -10783>>,
     <<11376, 11376, 1, -10782>>, <<11378, 11378, 1, 1>>,
     <<11381, 11381, 1, 1>>, <<11390, 11391, 1, -10815>>,
     <<11392, 11490, 2, 1>>, <<11499, 11501, 2, 1>>, <<11506, 11506, 1, 1>>,
     <<42560, 42604, 2, 1>>, <<42624, 42650, 2, 1>>, <<42786, 42798, 2, 1>>,
     <<42802, 42862, 2, 1>>, <<42873, 42875, 2, 1>>,
     <<42877, 42877, 1, -35332>>, <<42878, 42886, 2, 1>>,
     <<42891, 42891, 1, 1>>, <<42893, 42893, 1, -42280>>,
     <<42896, 42898, 2, 1>>, <<42902, 42920, 2, 1>>,
     <<42922, 42922, 1, -42308>>, <<42923, 42923, 1, -42319>>,
     <<42924, 42924, 1, -42315>>, <<42925, 42925, 1, -42305>>,
     <<42926, 42926, 1, -42308>>, <<42928, 42928, 1, -42258>>,
     <<42929, 42929, 1, -42282>>, <<42930, 42930, 1, -42261>>,
     <<42931, 42931, 1, 928>>, <<42932, 42946, 2, 1>>,
     <<42948, 42948, 1, -48>>, <<42949, 42949, 1, -42307>>,
     <<42950, 42950, 1, -35384>>, <<42951, 42953, 2, 1>>,
     <<42960, 42960, 1, 1>>, <<42966, 42968, 2, 1>>, <<42997, 42997, 1, 1>>,
     <<65313, 65338, 1, 32>>, <<66560, 66599, 1, 40>>,
     <<66736, 66771, 1, 40>>, <<66928, 66938, 1, 39>>,
     <<66940, 66954, 1, 39>>, <<66956, 66962, 1, 39>>,
     <<66964, 66965, 1, 39>>, <<68736, 68786, 1, 64>>,
     <<71840, 71871, 1, 32>>, <<93760, 93791, 1, 32>>,
     <<125184, 125217, 1, 34>> >>

\* The simple case foldings (CaseFolding.txt, status C and S) that are not
\* lower-case mappings, as compare(Qt::CaseInsensitive) folds a character.
FoldRanges ==
  << <<181, 181, 1, 775>>, <<383, 383, 1, -268>>, <<837, 837, 1, 116>>,
     <<962, 962, 1, 1>>, <<976, 976, 1, -30>>, <<977, 977, 1, -25>>,
     <<981, 981, 1, -15>>, <<982, 982, 1, -22>>, <<1008, 1008, 1, -54>>,
     <<1009, 1009, 1, -48>>, <<1013, 1013, 1, -64>>, <<5112, 5117, 1, -8>>,
     <<7296, 7296, 1, -6222>>, <<7297, 7297, 1, -6221>>,
     <<7298, 7298, 1, -6212>>, <<7299, 7300, 1, -6210>>,
     <<7301, 7301, 1, -6211>>, <<7302, 7302, 1, -6204>>,
     <<7303, 7303, 1, -6180>>, <<7304, 7304, 1, 35267>>,
     <<7835, 7835, 1, -58>>, <<8126, 8126, 1, -7173>>,
     <<43888, 43967, 1, -38864>> >>

\* the capital letters of the Cherokee script have a lower case and fold to
\* themselves
FoldedToCapital == { CharOf(n) : n \in 5024..5109 }

\* the code points of a range of mappings
RangeCodes(range) == { n \in range[1]..range[2] : (n - range[1]) % range[3] = 0 }

\* the mapping of the characters of one range
RangeMap(range) ==
  [c \in { CharOf(n) : n \in RangeCodes(range) } |->
     CharOf((CHOOSE n \in RangeCodes(range) : CharOf(n) = c) + range[4])]

LowerMaps == [i \in DOMAIN LowerRanges |-> RangeMap(LowerRanges[i])]

FoldMaps == [i \in DOMAIN FoldRanges |-> RangeMap(FoldRanges[i])]

\* the characters the ranges map
Sources(ranges) ==
  UNION { { CharOf(n) : n \in RangeCodes(ranges[i]) } : i \in DOMAIN ranges }

LowerSources == Sources(LowerRanges)

FoldSources == Sources(FoldRanges)

\* the character a sequence of mappings gives for c, when c is one of the
\* characters they map
Mapped(maps, sources, c, unmapped) ==
  IF c \in sources
  THEN maps[CHOOSE i \in DOMAIN maps : c \in DOMAIN maps[i]][c]
  ELSE unmapped

\* QChar::toLower(): the simple lower-case mapping; a character whose lower
\* case is more than one character (U+0130 only) is left as it is
LowerChar(c) == Mapped(LowerMaps, LowerSources, c, c)

\* the lower case of one character in QString::toLower(): the full mapping,
\* which for U+0130 is the two characters i, U+0307
LowerText(c) == IF c = "U+0130" THEN <<"i", "U+0307">> ELSE <<LowerChar(c)>>

RECURSIVE Flattened(_)
Flattened(texts) ==
  IF texts = <<>> THEN <<>> ELSE Head(texts) \o Flattened(Tail(texts))

\* QString::toLower()
toLower(s) == Flattened([i \in 1..Len(s) |-> LowerText(s[i])])

\* the case folding of one character in compare(Qt::CaseInsensitive)
FoldChar(c) ==
  Mapped(FoldMaps, FoldSources, c,
         IF c \in FoldedToCapital THEN c ELSE LowerChar(c))

\* QString::compare(other, Qt::CaseInsensitive) == 0
EqualsIgnoreCase(a, b) ==
  Len(a) = Len(b) /\ \A i \in 1..Len(a) : FoldChar(a[i]) = FoldChar(b[i])

DecimalDigits == <<"0", "1", "2", "3", "4", "5", "6", "7", "8", "9">>

\* the value of a decimal digit, -1 for any other character
DigitValue(c) ==
  IF \E k \in 1..10 : DecimalDigits[k] = c
  THEN (CHOOSE k \in 1..10 : DecimalDigits[k] = c) - 1
  ELSE -1

\* the decimal digits of a natural number
RECURSIVE Decimal(_)
Decimal(n) ==
  IF n < 10 THEN <<DecimalDigits[n + 1]>>
  ELSE Decimal(n \div 10) \o <<DecimalDigits[(n % 10) + 1]>>

\* QString::arg reading a place marker whose first digit is at position j of
\* s: its number, of one or two digits, the position after it, and whether
\* an "L" stands before the digits; number -1 and position j when no digit
\* is there
MarkerDigits(s, j, localized) ==
  IF j > Len(s) \/ DigitValue(s[j]) < 0
  THEN [number |-> -1, next |-> j, localized |-> localized]
  ELSE IF j < Len(s) /\ DigitValue(s[j + 1]) >= 0
  THEN [number |-> 10 * DigitValue(s[j]) + DigitValue(s[j + 1]), next |-> j + 2,
        localized |-> localized]
  ELSE [number |-> DigitValue(s[j]), next |-> j + 1, localized |-> localized]

\* the place marker at the "%" at position i of s: "%", an optional "L", one
\* or two digits
MarkerAt(s, i) ==
  IF i < Len(s) /\ s[i + 1] = "L" THEN MarkerDigits(s, i + 2, TRUE)
  ELSE MarkerDigits(s, i + 1, FALSE)

\* the least of a set of numbers that is not empty
Least(numbers) == CHOOSE n \in numbers : \A m \in numbers : n <= m

\* the positions of "%" in s from position i on
Percents(s, i) == { j \in i..Len(s) : s[j] = "%" }

\* the numbers of the place markers of s from the "%" at position i on
RECURSIVE MarkersFrom(_, _)
\* the numbers of the place markers of s from position i on
Markers(s, i) ==
  IF Percents(s, i) = {} THEN {} ELSE MarkersFrom(s, Least(Percents(s, i)))

MarkersFrom(s, i) ==
  (IF MarkerAt(s, i).number >= 0 THEN {MarkerAt(s, i).number} ELSE {})
    \cup Markers(s, MarkerAt(s, i).next)

\* s from the "%" at position i on, each place marker whose number has a
\* text replaced by that text
RECURSIVE ReplacedFrom(_, _, _)
\* s from position i on, each place marker whose number has a text replaced
\* by that text
Replaced(s, i, texts) ==
  IF Percents(s, i) = {} THEN SubSeq(s, i, Len(s))
  ELSE SubSeq(s, i, Least(Percents(s, i)) - 1)
         \o ReplacedFrom(s, Least(Percents(s, i)), texts)

ReplacedFrom(s, i, texts) ==
  (IF MarkerAt(s, i).number \notin DOMAIN texts
   THEN SubSeq(s, i, MarkerAt(s, i).next - 1)
   ELSE IF MarkerAt(s, i).localized THEN texts[MarkerAt(s, i).number].localized
   ELSE texts[MarkerAt(s, i).number].plain)
    \o Replaced(s, MarkerAt(s, i).next, texts)

\* the texts given to the lowest place markers of a set, in their order
RECURSIVE Assigned(_, _)
Assigned(numbers, texts) ==
  IF numbers = {} \/ texts = <<>> THEN <<>>
  ELSE (Least(numbers) :> Head(texts))
         @@ Assigned(numbers \ {Least(numbers)}, Tail(texts))

\* an argument of QString::arg: the text written at a marker without "L" and
\* the text written at a marker with "L"
ArgText(plain, localized) == [plain |-> plain, localized |-> localized]

\* a QString as an argument of QString::arg: the same text at every marker
ArgString(text) == ArgText(text, text)

\* QString::arg(a1, a2, ...): the texts replace the place markers of the
\* lowest numbers, all in one pass; QString::arg(a) with one text replaces
\* every marker of the lowest number, and a string without markers is
\* returned as it is.
arg(s, texts) == Replaced(s, 1, Assigned(Markers(s, 1), texts))

\* s.arg(t1).arg(t2)...: each text in turn replaces the lowest marker left
RECURSIVE ArgEach(_, _)
ArgEach(s, texts) ==
  IF texts = <<>> THEN s ELSE ArgEach(arg(s, <<Head(texts)>>), Tail(texts))

-----------------------------------------------------------------------------
(* IEEE 754 binary64 arithmetic, round to nearest even, as the compiled code *)
(* computes with qreal.  A natural number of any size is the sequence of its *)
(* digits in base 2^18, lowest first, without leading zeros; a double is     *)
(* [sign, mant, exp] with value sign * mant * 2^exp, where mant is 0 or has  *)
(* exactly 53 bits.  Subnormals and infinities do not occur at the           *)
(* magnitudes of coordinates and pixel counts.                               *)

LimbBase == 2^18

\* the digits of a natural number below 2^31
BigOf(n) ==
  IF n = 0 THEN <<>>
  ELSE IF n < LimbBase THEN <<n>>
  ELSE <<n % LimbBase, n \div LimbBase>>

RECURSIVE BigTrim(_)
BigTrim(a) ==
  IF a = <<>> THEN a
  ELSE IF a[Len(a)] = 0 THEN BigTrim(SubSeq(a, 1, Len(a) - 1)) ELSE a

RECURSIVE MulLimbs(_, _, _, _)
MulLimbs(a, n, i, carry) ==
  IF i > Len(a) THEN BigOf(carry)
  ELSE <<(a[i] * n + carry) % LimbBase>>
         \o MulLimbs(a, n, i + 1, (a[i] * n + carry) \div LimbBase)

\* a * n for 0 <= n < 2^13
BigMulSmall(a, n) == IF n = 0 THEN <<>> ELSE MulLimbs(a, n, 1, 0)

LimbAt(a, i) == IF i <= Len(a) THEN a[i] ELSE 0

RECURSIVE AddLimbs(_, _, _, _)
AddLimbs(a, b, i, carry) ==
  IF i > Len(a) /\ i > Len(b) THEN BigOf(carry)
  ELSE <<(LimbAt(a, i) + LimbAt(b, i) + carry) % LimbBase>>
         \o AddLimbs(a, b, i + 1, (LimbAt(a, i) + LimbAt(b, i) + carry) \div LimbBase)

BigAdd(a, b) == AddLimbs(a, b, 1, 0)

RECURSIVE SubLimbs(_, _, _, _)
SubLimbs(a, b, i, borrow) ==
  IF i > Len(a) THEN <<>>
  ELSE <<(a[i] - LimbAt(b, i) - borrow + LimbBase) % LimbBase>>
         \o SubLimbs(a, b, i + 1, IF a[i] - LimbAt(b, i) - borrow < 0 THEN 1 ELSE 0)

\* a - b for a >= b
BigSub(a, b) == BigTrim(SubLimbs(a, b, 1, 0))

RECURSIVE CmpLimbs(_, _, _)
CmpLimbs(a, b, i) ==
  IF i = 0 THEN 0
  ELSE IF a[i] < b[i] THEN -1
  ELSE IF a[i] > b[i] THEN 1
  ELSE CmpLimbs(a, b, i - 1)

\* -1, 0 or 1 as a is below, equal to or above b
BigCmp(a, b) ==
  IF Len(a) < Len(b) THEN -1
  ELSE IF Len(a) > Len(b) THEN 1
  ELSE CmpLimbs(a, b, Len(a))

RECURSIVE BitLen(_)
BitLen(n) == IF n = 0 THEN 0 ELSE 1 + BitLen(n \div 2)

BigBitLen(a) == IF a = <<>> THEN 0 ELSE 18 * (Len(a) - 1) + BitLen(a[Len(a)])

\* bit k of a (bit 0 is the lowest)
BigBit(a, k) == (LimbAt(a, k \div 18 + 1) \div 2^(k % 18)) % 2

RECURSIVE ShlLimbs(_, _, _, _)
ShlLimbs(a, r, i, carry) ==
  IF i > Len(a) THEN BigOf(carry)
  ELSE <<(a[i] % 2^(18 - r)) * 2^r + carry>>
         \o ShlLimbs(a, r, i + 1, a[i] \div 2^(18 - r))

\* a * 2^s
BigShl(a, s) ==
  IF a = <<>> THEN a
  ELSE [i \in 1..(s \div 18) |-> 0] \o ShlLimbs(a, s % 18, 1, 0)

\* a div 2^s
BigShr(a, s) ==
  IF s \div 18 >= Len(a) THEN <<>>
  ELSE BigTrim([i \in 1..(Len(a) - s \div 18) |->
                  LimbAt(a, i + s \div 18) \div 2^(s % 18)
                    + (LimbAt(a, i + s \div 18 + 1) % 2^(s % 18)) * 2^(18 - (s % 18))])

\* the lowest s bits of a are all 0
BigLowZero(a, s) ==
  /\ \A i \in 1..(s \div 18) : LimbAt(a, i) = 0
  /\ LimbAt(a, s \div 18 + 1) % 2^(s % 18) = 0

\* the quotient of the lower digits with the digit found above them
WithDigit(lower, digit) == [quot |-> lower.quot \o <<digit>>, rem |-> lower.rem]

RECURSIVE DivLimbs(_, _, _, _)
DivLimbs(a, q, i, rem) ==
  IF i = 0 THEN [quot |-> <<>>, rem |-> rem]
  ELSE WithDigit(DivLimbs(a, q, i - 1, (rem * LimbBase + a[i]) % q),
                 (rem * LimbBase + a[i]) \div q)

Trimmed(qr) == [quot |-> BigTrim(qr.quot), rem |-> qr.rem]

\* quotient and remainder of a by q, 0 < q < 2^13
BigDivSmall(a, q) == Trimmed(DivLimbs(a, q, Len(a), 0))

\* a natural number below 2^31 from its digits
BigToInt(a) == LimbAt(a, 1) + LimbAt(a, 2) * LimbBase

\* one more bit before the bits found after it
WithBit(bit, later) == [bits |-> <<bit>> \o later.bits, rem2 |-> later.rem2]

\* long division, bit by bit: the next bits of the quotient of rem2 by 2 * d,
\* highest first, and the remainder doubled that they leave, for rem2 < 2 * d
RECURSIVE DivBits(_, _, _)
DivBits(rem2, d, bits) ==
  IF bits = 0 THEN [bits |-> <<>>, rem2 |-> rem2]
  ELSE IF BigCmp(rem2, d) >= 0
  THEN WithBit(1, DivBits(BigShl(BigSub(rem2, d), 1), d, bits - 1))
  ELSE WithBit(0, DivBits(BigShl(rem2, 1), d, bits - 1))

\* the bits of the quotient of rem2 * 2^(8 * bytes - 1) by d, highest first,
\* eight at a time, followed by one more bit that is 1 when a remainder is
\* left
RECURSIVE DivBytes(_, _, _)
DivBytes(part, d, bytes) ==
  IF bytes = 0 THEN part.bits \o <<IF part.rem2 = <<>> THEN 0 ELSE 1>>
  ELSE part.bits \o DivBytes(DivBits(part.rem2, d, 8), d, bytes - 1)

\* the number whose binary digits, highest first, are bits[from..to]
RECURSIVE BitsValue(_, _, _)
BitsValue(bits, from, to) ==
  IF from > to THEN 0 ELSE 2 * BitsValue(bits, from, to - 1) + bits[to]

Max(a, b) == IF a > b THEN a ELSE b

Min(a, b) == IF a < b THEN a ELSE b

\* the big number of a sequence of binary digits, highest first
BigOfBits(bits) ==
  BigTrim([i \in 1..((Len(bits) + 17) \div 18) |->
             BitsValue(bits, Max(1, Len(bits) - 18 * i + 1), Len(bits) - 18 * (i - 1))])

Double(sign, mant, exp) == [sign |-> sign, mant |-> mant, exp |-> exp]

\* 0.0
DZero == Double(1, <<>>, 0)

\* the double of 53 bits cut from a number of more bits: m2 is the number cut
\* and rounded, which may have reached 2^53
Renormalized(sign, m2, exp) ==
  IF BigBitLen(m2) > 53 THEN Double(sign, BigShr(m2, 1), exp + 1)
  ELSE Double(sign, m2, exp)

\* round to nearest, ties to even, of sign * (m + f) * 2^exp for a number
\* m # 0 of len bits, where f is 0, or some fraction in (0, 1) when sticky (m
\* then has more than 54 bits)
RoundBits(sign, m, exp, sticky, len) ==
  IF len <= 53 THEN Double(sign, BigShl(m, 53 - len), exp - (53 - len))
  ELSE Renormalized(
         sign,
         IF /\ BigBit(m, len - 54) = 1
            /\ \/ sticky
               \/ ~BigLowZero(m, len - 54)
               \/ BigBit(m, len - 53) = 1
         THEN BigAdd(BigShr(m, len - 53), <<1>>)
         ELSE BigShr(m, len - 53),
         exp + len - 53)

\* the double nearest to sign * (m + f) * 2^exp
RoundBig(sign, m, exp, sticky) ==
  IF m = <<>> THEN DZero ELSE RoundBits(sign, m, exp, sticky, BigBitLen(m))

RECURSIVE TwosIn(_)
TwosIn(q) == IF q % 2 = 0 THEN 1 + TwosIn(q \div 2) ELSE 0

Sign(n) == IF n < 0 THEN -1 ELSE 1

\* the double nearest to sign * (qr.quot + f) * 2^exp, where f is a fraction
\* in (0, 1) when the division left a remainder and 0 when it left none
RoundSmallQuotient(sign, qr, exp) == RoundBig(sign, qr.quot, exp, qr.rem # 0)

\* the double nearest to p / q, for integers with q > 0 whose odd part is
\* below 2^13: static_cast<qreal>(p) / q, and a decimal constant
DFromRatio(p, q) ==
  IF p = 0 THEN DZero
  ELSE RoundSmallQuotient(Sign(p),
                          BigDivSmall(BigShl(BigOf(Sign(p) * p), 72), q \div 2^TwosIn(q)),
                          0 - 72 - TwosIn(q))

\* static_cast<qreal>(n)
DFromInt(n) == DFromRatio(n, 1)

\* 1.0: 2^52 * 2^-52
DOne == Double(1, <<0, 0, 65536>>, -52)

DNeg(a) == IF a.mant = <<>> THEN a ELSE Double(0 - a.sign, a.mant, a.exp)

DIsNegative(a) == a.mant # <<>> /\ a.sign < 0

\* a * n for an int n, -2^13 < n < 2^13 (the int is converted exactly)
DMulInt(a, n) ==
  IF a.mant = <<>> \/ n = 0 THEN DZero
  ELSE RoundBig(a.sign * Sign(n), BigMulSmall(a.mant, Sign(n) * n), a.exp, FALSE)

\* the sum of two magnitudes brought to one exponent, signed: the sign is
\* that of the larger magnitude, and equal magnitudes of two signs give 0.0
SignedSum(sa, ma, sb, mb, order, exp) ==
  RoundBig(IF order >= 0 THEN sa ELSE sb,
           IF sa = sb THEN BigAdd(ma, mb)
           ELSE IF order >= 0 THEN BigSub(ma, mb) ELSE BigSub(mb, ma),
           exp, FALSE)

\* a + b for a, b # 0 with a.exp >= b.exp
AlignedSum(a, ma, b) == SignedSum(a.sign, ma, b.sign, b.mant, BigCmp(ma, b.mant), b.exp)

\* a + b for a, b # 0 with a.exp >= b.exp
OrderedSum(a, b) ==
  IF a.exp - b.exp > 64 THEN a ELSE AlignedSum(a, BigShl(a.mant, a.exp - b.exp), b)

\* a + b
DAdd(a, b) ==
  IF a.mant = <<>> THEN b
  ELSE IF b.mant = <<>> THEN a
  ELSE OrderedSum(IF a.exp >= b.exp THEN a ELSE b, IF a.exp >= b.exp THEN b ELSE a)

\* a - b
DSub(a, b) == DAdd(a, DNeg(b))

\* |a| < |b| for a, b # 0: both have 53 bits
MagnitudeLess(a, b) ==
  a.exp < b.exp \/ (a.exp = b.exp /\ BigCmp(a.mant, b.mant) < 0)

\* a < b
DLess(a, b) ==
  IF a.mant = <<>> THEN b.mant # <<>> /\ b.sign > 0
  ELSE IF b.mant = <<>> THEN a.sign < 0
  ELSE IF a.sign # b.sign THEN a.sign < 0
  ELSE IF a.sign > 0 THEN MagnitudeLess(a, b)
  ELSE MagnitudeLess(b, a)

\* a / b for b # 0
DDiv(a, b) ==
  IF a.mant = <<>> THEN DZero
  ELSE RoundBig(a.sign * b.sign,
                BigOfBits(DivBytes(DivBits(a.mant, b.mant, 8), b.mant, 7)),
                a.exp - b.exp - 64, FALSE)

\* the whole part of the magnitude of sign * mant * 2^exp (mant of any
\* length, the whole part below 2^31), whether no fraction is left, and
\* whether the fraction left is 1/2 or more
WholePart(a) ==
  IF a.mant = <<>> THEN [whole |-> 0, exact |-> TRUE, half |-> FALSE]
  ELSE IF a.exp >= 0
  THEN [whole |-> BigToInt(BigShl(a.mant, a.exp)), exact |-> TRUE, half |-> FALSE]
  ELSE [whole |-> BigToInt(BigShr(a.mant, 0 - a.exp)),
        exact |-> BigLowZero(a.mant, 0 - a.exp),
        half |-> BigBit(a.mant, 0 - a.exp - 1) = 1]

FloorOf(sign, part) ==
  IF sign > 0 THEN part.whole
  ELSE IF part.exact THEN 0 - part.whole
  ELSE 0 - part.whole - 1

CeilOf(sign, part) ==
  IF sign < 0 THEN 0 - part.whole
  ELSE IF part.exact THEN part.whole
  ELSE part.whole + 1

RoundOf(sign, part) == sign * (part.whole + IF part.half THEN 1 ELSE 0)

\* static_cast<int>(std::floor(a))
DFloor(a) == FloorOf(a.sign, WholePart(a))

\* static_cast<int>(std::ceil(a))
DCeil(a) == CeilOf(a.sign, WholePart(a))

\* std::lround(a): to nearest, halves away from zero
DRound(a) == RoundOf(a.sign, WholePart(a))

\* a coordinate given in units of 1e-5: the double nearest to v / 100000, as
\* the configuration's number is parsed
Coord(v) == DFromRatio(v, 100000)

\* the count of 1e-4 units nearest to the magnitude of a double, a half
\* counting upwards: 10^4 = 625 * 2^4, and the product is exact
UnitsF4(d) == RoundOf(1, WholePart(Double(1, BigMulSmall(d.mant, 625), d.exp + 4)))

\* the decimal digits of n, at least four of them, with the decimal point
\* before the last four
FixedF4(n) ==
  Decimal(n \div 10000)
    \o <<".", DecimalDigits[((n \div 1000) % 10) + 1],
         DecimalDigits[((n \div 100) % 10) + 1], DecimalDigits[((n \div 10) % 10) + 1],
         DecimalDigits[(n % 10) + 1]>>

\* QString::arg(double, 0, 'f', 4): the digits of the double's exact value
\* rounded to four decimals, and the sign of a negative value
FormatDouble(d) ==
  IF DIsNegative(d) THEN <<"-">> \o FixedF4(UnitsF4(d)) ELSE FixedF4(UnitsF4(d))

\* The number settings of a QLocale: the ten digits, the texts of the
\* negative sign, of the decimal point and of the group separator, the
\* number option QLocale::OmitGroupSeparator, and the sizes of the groups:
\* of the group next to the decimal point, of the groups above it, and the
\* least count of digits the topmost group has when a number is grouped.
Locale(digits, minus, point, group, omitGroupSeparator, first, higher, least) ==
  [digits |-> digits, minus |-> minus, point |-> point, group |-> group,
   omitGroupSeparator |-> omitGroupSeparator,
   grouping |-> [first |-> first, higher |-> higher, least |-> least]]

\* QLocale::c()
CLocale == Locale(DecimalDigits, <<"-">>, <<".">>, <<",">>, TRUE, 3, 3, 1)

\* system locales: of the United States, of Germany, of Spain (a group is
\* split off from five digits on), of Egypt (its own digits and signs)
EnglishLocale == Locale(DecimalDigits, <<"-">>, <<".">>, <<",">>, FALSE, 3, 3, 1)

GermanLocale == Locale(DecimalDigits, <<"-">>, <<",">>, <<".">>, FALSE, 3, 3, 1)

SpanishLocale == Locale(DecimalDigits, <<"-">>, <<",">>, <<".">>, FALSE, 3, 3, 2)

ArabicLocale ==
  Locale(<<"U+0660", "U+0661", "U+0662", "U+0663", "U+0664", "U+0665", "U+0666",
           "U+0667", "U+0668", "U+0669">>,
         <<"U+061C", "-">>, <<"U+066B">>, <<"U+066C">>, FALSE, 3, 3, 1)

\* the locales QLocale() stands for in the runs explored
SystemLocales == { CLocale, EnglishLocale, GermanLocale, SpanishLocale, ArabicLocale }

\* decimal digits written with the digits of a locale
LocalDigits(systemLocale, digits) ==
  [i \in 1..Len(digits) |-> systemLocale.digits[DigitValue(digits[i]) + 1]]

\* digits with the group separator put in after the first i of them and
\* after every group above
RECURSIVE WithSeparators(_, _, _)
WithSeparators(digits, i, systemLocale) ==
  IF i <= 0 THEN digits
  ELSE WithSeparators(SubSeq(digits, 1, i) \o systemLocale.group
                        \o SubSeq(digits, i + 1, Len(digits)),
                      i - systemLocale.grouping.higher, systemLocale)

\* the digits before the decimal point, grouped as the locale groups them
Grouped(systemLocale, digits) ==
  IF \/ systemLocale.omitGroupSeparator
     \/ Len(digits) - systemLocale.grouping.first < systemLocale.grouping.least
  THEN digits
  ELSE WithSeparators(digits, Len(digits) - systemLocale.grouping.first, systemLocale)

\* n units of 1e-4 in the locale: the grouped digits before the decimal
\* point, the decimal point, four digits
LocalizedFixedF4(systemLocale, n) ==
  Grouped(systemLocale, LocalDigits(systemLocale, Decimal(n \div 10000)))
    \o systemLocale.point
    \o LocalDigits(systemLocale,
                   <<DecimalDigits[((n \div 1000) % 10) + 1],
                     DecimalDigits[((n \div 100) % 10) + 1],
                     DecimalDigits[((n \div 10) % 10) + 1],
                     DecimalDigits[(n % 10) + 1]>>)

\* QString::arg(double, 0, 'f', 4) at a marker with "L": the text of the
\* double in the locale QLocale() stands for
LocalizedDouble(systemLocale, d) ==
  IF DIsNegative(d)
  THEN systemLocale.minus \o LocalizedFixedF4(systemLocale, UnitsF4(d))
  ELSE LocalizedFixedF4(systemLocale, UnitsF4(d))

\* a result computed once for the inputs of the rules explored, and computed
\* at the call for any other input
Tabulated(table, input, computed) ==
  IF input \in DOMAIN table THEN table[input] ELSE computed

\* the coordinates of the rules explored, whose texts are computed once
TabulatedCoords == { 0, 10000, 20000, 25000, 30000, 50000 }

TabulatedTexts == [v \in TabulatedCoords |-> FormatDouble(Coord(v))]

\* QString::arg(double, 0, 'f', 4) of a coordinate given in units of 1e-5
FormatF4(v) == Tabulated(TabulatedTexts, v, FormatDouble(Coord(v)))

\* a coordinate given in units of 1e-5 as the argument of
\* QString::arg(double, 0, 'f', 4)
ArgF4(systemLocale, v) ==
  ArgText(FormatF4(v), LocalizedDouble(systemLocale, Coord(v)))

-----------------------------------------------------------------------------
(* QImage.  A raster is held as bands of equal scan lines and a scan line   *)
(* as runs of equal pixels, both joined as far as they go, so that equal    *)
(* rasters are equal values whatever their size.                            *)

Run(cols, value) == [cols |-> cols, value |-> value]

Band(rows, runs) == [rows |-> rows, runs |-> runs]

\* neighbouring runs of one value joined, runs of no column dropped
RECURSIVE JoinedRuns(_)
JoinedRuns(runs) ==
  IF runs = <<>> THEN <<>>
  ELSE LET run == Head(runs)
           rest == JoinedRuns(Tail(runs))
       IN IF run.cols <= 0 THEN rest
          ELSE IF rest # <<>> /\ Head(rest).value = run.value
          THEN <<Run(run.cols + Head(rest).cols, run.value)>> \o Tail(rest)
          ELSE <<run>> \o rest

\* neighbouring bands of one scan line joined, bands of no row dropped
RECURSIVE JoinedBands(_)
JoinedBands(bands) ==
  IF bands = <<>> THEN <<>>
  ELSE LET band == Head(bands)
           rest == JoinedBands(Tail(bands))
       IN IF band.rows <= 0 THEN rest
          ELSE IF rest # <<>> /\ Head(rest).runs = band.runs
          THEN <<Band(band.rows + Head(rest).rows, band.runs)>> \o Tail(rest)
          ELSE <<band>> \o rest

\* the raster of w columns and h rows whose pixels, row by row, are listed
ImageOfPixels(w, h, pixels) ==
  [width |-> w, height |-> h,
   bands |-> JoinedBands(
     [y \in 1..h |->
        Band(1, JoinedRuns([x \in 1..w |-> Run(1, pixels[(y - 1) * w + x])]))])]

NullImage == [width |-> 0, height |-> 0, bands |-> <<>>]

\* QImage::isNull: an image without pixels
isNull(img) == img.width * img.height = 0

sizeOf(img) == <<img.width, img.height>>

RECURSIVE ValueAt(_, _)
ValueAt(runs, x) ==
  IF x < Head(runs).cols THEN Head(runs).value
  ELSE ValueAt(Tail(runs), x - Head(runs).cols)

RECURSIVE ScanLine(_, _)
ScanLine(bands, y) ==
  IF y < Head(bands).rows THEN Head(bands).runs
  ELSE ScanLine(Tail(bands), y - Head(bands).rows)

\* the pixel at column x, row y (both from 0)
pixelAt(img, x, y) == ValueAt(ScanLine(img.bands, y), x)

\* qGray(r, g, b), the weighting of QImage::convertToFormat(Format_Grayscale8)
qGray(rgb) == (rgb[1] * 11 + rgb[2] * 16 + rgb[3] * 5) \div 32

GrayRuns(runs) ==
  JoinedRuns([k \in 1..Len(runs) |-> Run(runs[k].cols, qGray(runs[k].value))])

convertToGrayscale8(img) ==
  [width |-> img.width, height |-> img.height,
   bands |-> JoinedBands([k \in 1..Len(img.bands) |->
                            Band(img.bands[k].rows, GrayRuns(img.bands[k].runs))])]

CeilDiv(a, b) == (a + b - 1) \div b

\* nearest-neighbour resampling of one axis from `from` positions to `to`:
\* the position p of the result reads the position (p * from) \div to, so
\* the positions before..before + extent - 1 are read by those from
\* CeilDiv(before * to, from) up to CeilDiv((before + extent) * to, from)
ResampledExtent(before, extent, from, to) ==
  CeilDiv((before + extent) * to, from) - CeilDiv(before * to, from)

RECURSIVE ResampledRuns(_, _, _, _)
ResampledRuns(runs, before, from, to) ==
  IF runs = <<>> THEN <<>>
  ELSE <<Run(ResampledExtent(before, Head(runs).cols, from, to), Head(runs).value)>>
         \o ResampledRuns(Tail(runs), before + Head(runs).cols, from, to)

RECURSIVE ResampledBands(_, _, _, _, _)
ResampledBands(bands, before, img, w, h) ==
  IF bands = <<>> THEN <<>>
  ELSE <<Band(ResampledExtent(before, Head(bands).rows, img.height, h),
              JoinedRuns(ResampledRuns(Head(bands).runs, 0, img.width, w)))>>
         \o ResampledBands(Tail(bands), before + Head(bands).rows, img, w, h)

\* QImage::scaled(w, h, Qt::IgnoreAspectRatio, Qt::FastTransformation):
\* nearest-neighbour resampling, no smoothing
scaled(img, w, h) ==
  [width |-> w, height |-> h,
   bands |-> JoinedBands(ResampledBands(img.bands, 0, img, w, h))]

preprocessForDiff(input) ==
  IF isNull(input) THEN NullImage
  ELSE scaled(convertToGrayscale8(input), kPreprocessSize, kPreprocessSize)

Abs(n) == IF n < 0 THEN -n ELSE n

\* what is left of runs (or bands) after the first n positions of the first
RunsAfter(runs, n) ==
  IF Head(runs).cols = n THEN Tail(runs)
  ELSE <<Run(Head(runs).cols - n, Head(runs).value)>> \o Tail(runs)

BandsAfter(bands, n) ==
  IF Head(bands).rows = n THEN Tail(bands)
  ELSE <<Band(Head(bands).rows - n, Head(bands).runs)>> \o Tail(bands)

\* std::abs(currLine[x] - prevLine[x]) along two scan lines of one width
RECURSIVE DeltaRuns(_, _)
DeltaRuns(prevLine, currLine) ==
  IF prevLine = <<>> \/ currLine = <<>> THEN <<>>
  ELSE LET n == Min(Head(prevLine).cols, Head(currLine).cols)
       IN <<Run(n, Abs(Head(currLine).value - Head(prevLine).value))>>
            \o DeltaRuns(RunsAfter(prevLine, n), RunsAfter(currLine, n))

\* the deltas of every scan line of two rasters of one size
RECURSIVE DeltaBands(_, _)
DeltaBands(previous, current) ==
  IF previous = <<>> \/ current = <<>> THEN <<>>
  ELSE LET n == Min(Head(previous).rows, Head(current).rows)
       IN <<Band(n, DeltaRuns(Head(previous).runs, Head(current).runs))>>
            \o DeltaBands(BandsAfter(previous, n), BandsAfter(current, n))

RECURSIVE SumOf(_)
SumOf(numbers) ==
  IF numbers = <<>> THEN 0 ELSE Head(numbers) + SumOf(Tail(numbers))

\* the pixel positions of two rasters of one size whose delta is one of those
\* counted
CountedPixels(previous, current, counted) ==
  LET deltas == DeltaBands(previous.bands, current.bands)
      InLine(runs) ==
        SumOf([k \in 1..Len(runs) |->
                 IF runs[k].value \in counted THEN runs[k].cols ELSE 0])
  IN SumOf([k \in 1..Len(deltas) |-> deltas[k].rows * InLine(deltas[k].runs)])

\* the pixel count as it would be if every pixel counted as changed
changedPixels_AnyDelta(previous, current) ==
  CountedPixels(previous, current, 0..255)

\* the pixel count as it would be if only a delta above the threshold counted
changedPixels_StrictDelta(previous, current) ==
  CountedPixels(previous, current, (kPixelDeltaThreshold + 1)..255)

\* the pixels counted by the loop of changedPercent: those whose delta, at
\* most 255 between two bytes, reaches the threshold
changedPixels(previous, current) ==
  CountedPixels(previous, current, kPixelDeltaThreshold..255)

\* changedPercent as it would be if an absent frame counted as no change
changedPercent_AbsentAsUnchanged(previous, current) ==
  IF isNull(previous) \/ isNull(current)
  THEN [num |-> 0, den |-> 1]
  ELSE IF sizeOf(previous) # sizeOf(current)
  THEN [num |-> 100, den |-> 1]
  ELSE [num |-> changedPixels(previous, current) * 100,
        den |-> previous.width * previous.height]

\* changedPercent: the double it returns, as an exact fraction
changedPercent(previous, current) ==
  IF isNull(previous) \/ isNull(current) \/ sizeOf(previous) # sizeOf(current)
  THEN [num |-> 100, den |-> 1]
  ELSE IF previous.width <= 0 \/ previous.height <= 0
  THEN [num |-> 0, den |-> 1]
  ELSE [num |-> changedPixels(previous, current) * 100,
        den |-> previous.width * previous.height]

\* score >= static_cast<double>(threshold)
ScoreAtLeast(score, threshold) == score.num >= threshold * score.den

qBound(lo, v, hi) == IF v < lo THEN lo ELSE IF v > hi THEN hi ELSE v

-----------------------------------------------------------------------------
(* Rules and rule state *)

\* QStringLiteral("%1|%2|%3|%4|%5|%6")
KeyPattern ==
  <<"%", "1", "|", "%", "2", "|", "%", "3", "|", "%", "4", "|", "%", "5", "|",
    "%", "6">>

\* the four numbers of a region in the order effectiveRuleKey passes them
RegionNumbers(region) == <<region.x, region.y, region.width, region.height>>

\* the key effectiveRuleKey builds for a rule without id, under the locale
\* QLocale() stands for
BuiltKey(systemLocale, characterName, label, region) ==
  ArgEach(arg(KeyPattern, <<ArgString(characterName), ArgString(label)>>),
          [k \in 1..4 |-> ArgF4(systemLocale, RegionNumbers(region)[k])])

TabulatedKeyRegions ==
  { [x |-> 50000, y |-> 50000, width |-> 25000, height |-> 25000],
    [x |-> 10000, y |-> 50000, width |-> 25000, height |-> 25000] }

TabulatedKeys ==
  [systemLocale \in SystemLocales, characterName \in { <<"B", "o">> },
   label \in { <<"dscan">> }, region \in TabulatedKeyRegions |->
     BuiltKey(systemLocale, characterName, label, region)]

\* RegionAlertMonitor::effectiveRuleKey
effectiveRuleKey(rule) ==
  IF trimmed(rule.id) # <<>> THEN trimmed(rule.id)
  ELSE Tabulated(TabulatedKeys,
                 <<locale, trimmed(rule.characterName), trimmed(rule.label),
                   rule.regionNormalized>>,
                 BuiltKey(locale, trimmed(rule.characterName), trimmed(rule.label),
                          rule.regionNormalized))

\* a default-constructed RegionAlertMonitor::RuleState
DefaultRuleState ==
  [baselineFrame |-> NullImage,
   consecutiveFramesAboveThreshold |-> 0,
   cooldownUntilMs |-> 0,
   consecutiveCaptureFailures |-> 0,
   capturePipelineKey |-> <<>>]

\* QHash::operator[] on m_ruleStateById: the entry, default-constructed and
\* inserted when the key is missing
InsertDefault(states, key) ==
  IF key \in DOMAIN states THEN states
  ELSE [k \in DOMAIN states \cup {key} |->
          IF k = key THEN DefaultRuleState ELSE states[k]]

\* assignment through the reference that operator[] returned
StoreState(states, key, state) ==
  [k \in DOMAIN states \cup {key} |-> IF k = key THEN state ELSE states[k]]

\* resetRuleState as it would be if the reset spared the cooldown deadline
resetRuleState_KeepingCooldown(state) ==
  [state EXCEPT !.baselineFrame = NullImage,
                !.consecutiveFramesAboveThreshold = 0,
                !.consecutiveCaptureFailures = 0,
                !.capturePipelineKey = <<>>]

\* RegionAlertMonitor::resetRuleState, on the entry of the key
resetRuleState(state) ==
  [state EXCEPT !.baselineFrame = NullImage,
                !.consecutiveFramesAboveThreshold = 0,
                !.cooldownUntilMs = 0,
                !.consecutiveCaptureFailures = 0,
                !.capturePipelineKey = <<>>]

\* a capture failure as it would be if it broke the above-threshold streak
noteCaptureFailure_BreakingStreak(state) ==
  IF state.consecutiveCaptureFailures + 1 >= kCaptureFailureResetThreshold
  THEN resetRuleState(state)
  ELSE [state EXCEPT !.consecutiveCaptureFailures = @ + 1,
                     !.consecutiveFramesAboveThreshold = 0]

\* a capture failure as it would be if every failure dropped the baseline
noteCaptureFailure_DroppingBaseline(state) ==
  IF state.consecutiveCaptureFailures + 1 >= kCaptureFailureResetThreshold
  THEN resetRuleState(state)
  ELSE [state EXCEPT !.consecutiveCaptureFailures = @ + 1,
                     !.baselineFrame = NullImage]

\* a capture failure as it would be if the reset came only above the threshold
noteCaptureFailure_ResettingLate(state) ==
  LET counted == [state EXCEPT !.consecutiveCaptureFailures = @ + 1]
  IN IF counted.consecutiveCaptureFailures > kCaptureFailureResetThreshold
     THEN resetRuleState(counted)
     ELSE counted

\* RegionAlertMonitor::noteCaptureFailure, on the entry of the key
noteCaptureFailure(state) ==
  LET counted == [state EXCEPT !.consecutiveCaptureFailures = @ + 1]
  IN IF counted.consecutiveCaptureFailures >= kCaptureFailureResetThreshold
     THEN resetRuleState(counted)
     ELSE counted

-----------------------------------------------------------------------------
(* Geometry.  A normalized QRectF of a rule or of a thumbnail crop is a     *)
(* record [x, y, width, height] in units of 1e-5; a qreal that the code     *)
(* computes from pixel counts is the exact fraction [num, den], den > 0; a  *)
(* QRect and a QSize are records of integers.                               *)

kMinRegionPixelSize == 8

Size(w, h) == [width |-> w, height |-> h]

\* QRect(x, y, w, h)
Rect(x, y, w, h) == [x |-> x, y |-> y, width |-> w, height |-> h]

\* QRect()
NullRect == Rect(0, 0, 0, 0)

\* qBound(0.0, v, 1.0)
ClampUnit(f) ==
  IF DLess(DOne, f) THEN DOne
  ELSE IF DLess(DZero, f) THEN f
  ELSE DZero

\* static_cast<int>(std::floor(f * n))
FloorTimes(f, n) == DFloor(DMulInt(f, n))

\* static_cast<int>(std::ceil(f * n))
CeilTimes(f, n) == DCeil(DMulInt(f, n))

\* a region or crop of the configuration, its numbers in units of 1e-5
Region(x, y, w, h) == [x |-> x, y |-> y, width |-> w, height |-> h]

\* QRectF(x, y, w, h): four doubles
QRectF(x, y, w, h) == [x |-> x, y |-> y, width |-> w, height |-> h]

\* the QRectF of a region given in units of 1e-5
RegionRectF(region) ==
  QRectF(Coord(region.x), Coord(region.y), Coord(region.width), Coord(region.height))

\* QRectF::normalized(): a negative extent is added to the origin and negated
normalized(r) ==
  QRectF(IF DIsNegative(r.width) THEN DAdd(r.x, r.width) ELSE r.x,
         IF DIsNegative(r.height) THEN DAdd(r.y, r.height) ELSE r.y,
         IF DIsNegative(r.width) THEN DNeg(r.width) ELSE r.width,
         IF DIsNegative(r.height) THEN DNeg(r.height) ELSE r.height)

\* the edges of a rectangle as [left, top, right, bottom]
Edges(l, t, r, b) == [left |-> l, top |-> t, right |-> r, bottom |-> b]

\* QRectF::left(), top(), right(), bottom(): right and bottom are the sums
\* x + width and y + height
RectFEdges(r) == Edges(r.x, r.y, DAdd(r.x, r.width), DAdd(r.y, r.height))

\* the edges of a region as they would be without QRectF::normalized()
NormalizedEdges_Unswapped(region) == RectFEdges(RegionRectF(region))

\* QRectF::normalized() of a rule region or crop, by its edges
NormalizedEdges(region) == RectFEdges(normalized(RegionRectF(region)))

\* qBound(0, static_cast<int>(std::floor(edge * extent)), extent - 1) of the
\* edge bounded to [0, 1]
LowPixel(edge, extent) == qBound(0, FloorTimes(ClampUnit(edge), extent), extent - 1)

\* qBound(low + 1, static_cast<int>(std::ceil(edge * extent)), extent) of the
\* edge bounded to [0, 1]
HighPixel(low, edge, extent) ==
  qBound(low + 1, CeilTimes(ClampUnit(edge), extent), extent)

\* HighPixel as it would be if the edge were bounded below by the low pixel,
\* not by the pixel after it
HighPixel_AllowingEmpty(low, edge, extent) ==
  qBound(low, CeilTimes(ClampUnit(edge), extent), extent)

\* QRect(leftPx, topPx, rightPx - leftPx, bottomPx - topPx)
RectOfPixels(leftPx, topPx, rightPx, bottomPx) ==
  Rect(leftPx, topPx, rightPx - leftPx, bottomPx - topPx)

\* the rectangle of the four pixel edges, the high ones found from the low
PixelsFrom(leftPx, topPx, edges, sourceSize) ==
  RectOfPixels(leftPx, topPx,
               HighPixel(leftPx, edges.right, sourceSize.width),
               HighPixel(topPx, edges.bottom, sourceSize.height))

PixelsFrom_AllowingEmpty(leftPx, topPx, edges, sourceSize) ==
  RectOfPixels(leftPx, topPx,
               HighPixel_AllowingEmpty(leftPx, edges.right, sourceSize.width),
               HighPixel_AllowingEmpty(topPx, edges.bottom, sourceSize.height))

\* regionToPixels as it would be without the test of the reference size
EdgesToPixels_Unguarded(edges, sourceSize) ==
  PixelsFrom(LowPixel(edges.left, sourceSize.width),
             LowPixel(edges.top, sourceSize.height), edges, sourceSize)

\* regionToPixels as it would be if the right and bottom edges were bounded
\* below by the left and top edges, not by the pixel after them
EdgesToPixels_AllowingEmpty(edges, sourceSize) ==
  IF sourceSize.width <= 0 \/ sourceSize.height <= 0 THEN NullRect
  ELSE PixelsFrom_AllowingEmpty(LowPixel(edges.left, sourceSize.width),
                                LowPixel(edges.top, sourceSize.height),
                                edges, sourceSize)

\* regionToPixels, from the clamping of the four edges on
EdgesToPixels(edges, sourceSize) ==
  IF sourceSize.width <= 0 \/ sourceSize.height <= 0 THEN NullRect
  ELSE PixelsFrom(LowPixel(edges.left, sourceSize.width),
                  LowPixel(edges.top, sourceSize.height), edges, sourceSize)

\* regionToPixels on a rule region, from QRectF::normalized() on
RegionEdgesToPixels(normalizedRegion, sourceSize) ==
  EdgesToPixels(NormalizedEdges(normalizedRegion), sourceSize)

\* the regions of the rules explored and the sizes of the windows explored,
\* whose pixel rectangles are computed once
TabulatedRegions ==
  { Region(10000, 20000, 30000, 30000), Region(50000, 50000, 25000, 25000),
    Region(0, 0, 50000, 50000), Region(50000, 20000, 30000, 30000),
    Region(10000, 50000, 25000, 25000) }

TabulatedSizes == { Size(40, 40), Size(10, 10) }

TabulatedPixels ==
  [region \in TabulatedRegions, size \in TabulatedSizes |->
     RegionEdgesToPixels(region, size)]

\* RegionAlertMonitor::regionToPixels on a rule region
regionToPixels(normalizedRegion, sourceSize) ==
  Tabulated(TabulatedPixels, <<normalizedRegion, sourceSize>>,
            RegionEdgesToPixels(normalizedRegion, sourceSize))

\* QRectF(): no extent
NullRectF == QRectF(DZero, DZero, DZero, DZero)

\* QRectF::isValid() && width() > 0.0 && height() > 0.0
IsValidRectF(rect) == DLess(DZero, rect.width) /\ DLess(DZero, rect.height)

\* the crop's pixel edges, the high ones found from the low
CropFrom(cropLeft, cropTop, crop, sourceClientSize) ==
  Edges(cropLeft, cropTop,
        HighPixel(cropLeft, crop.right, sourceClientSize.width),
        HighPixel(cropTop, crop.bottom, sourceClientSize.height))

\* mapSourceRegionToThumbnailRegion: the crop in source pixels, as
\* [left, top, right, bottom]
CropEdgesToPixels(crop, sourceClientSize) ==
  CropFrom(LowPixel(crop.left, sourceClientSize.width),
           LowPixel(crop.top, sourceClientSize.height), crop, sourceClientSize)

CropToPixels(thumbnailCrop, sourceClientSize) ==
  CropEdgesToPixels(NormalizedEdges(thumbnailCrop), sourceClientSize)

\* the crop narrowed about its centre to targetWidth
TrimmedToWidth(crop, cropWidth, targetWidth) ==
  Edges(crop.left + (cropWidth - targetWidth) \div 2, crop.top,
        crop.left + (cropWidth - targetWidth) \div 2 + targetWidth, crop.bottom)

\* the crop lowered about its centre to targetHeight
TrimmedToHeight(crop, cropHeight, targetHeight) ==
  Edges(crop.left, crop.top + (cropHeight - targetHeight) \div 2, crop.right,
        crop.top + (cropHeight - targetHeight) \div 2 + targetHeight)

\* the trim, from the two aspect ratios on
TrimByAspects(crop, cropWidth, cropHeight, sourceAspect, destinationAspect) ==
  IF DLess(destinationAspect, sourceAspect)
  THEN TrimmedToWidth(
         crop, cropWidth,
         Min(Max(1, DRound(DMulInt(destinationAspect, cropHeight))), cropWidth))
  ELSE IF DLess(sourceAspect, destinationAspect)
  THEN TrimmedToHeight(
         crop, cropHeight,
         Min(Max(1, DRound(DDiv(DFromInt(cropWidth), destinationAspect))),
             cropHeight))
  ELSE crop

\* the trim, from the crop's extents on
TrimExtents(crop, cropWidth, cropHeight, thumbnailSize) ==
  TrimByAspects(crop, cropWidth, cropHeight, DFromRatio(cropWidth, cropHeight),
                DFromRatio(thumbnailSize.width, thumbnailSize.height))

\* mapSourceRegionToThumbnailRegion: the crop trimmed about its centre to the
\* aspect ratio of the thumbnail
TrimToAspect(crop, thumbnailSize) ==
  TrimExtents(crop, Max(1, crop.right - crop.left), Max(1, crop.bottom - crop.top),
              thumbnailSize)

\* mapSourceRegionToThumbnailRegion: the crop in source pixels, trimmed to the
\* aspect ratio of the thumbnail, as [left, top, right, bottom]
TrimmedCrop(thumbnailCrop, sourceClientSize, thumbnailSize) ==
  TrimToAspect(CropToPixels(thumbnailCrop, sourceClientSize), thumbnailSize)

\* QRectF(QPointF(l, t), QPointF(r, b))
RectFOfPoints(l, t, r, b) == QRectF(l, t, DSub(r, l), DSub(b, t))

\* qBound(0.0, static_cast<qreal>(pixel - origin) / extent, 1.0)
MappedEdge(pixel, origin, extent) == ClampUnit(DFromRatio(pixel - origin, extent))

\* the normalized rectangle, or QRectF() when it has no extent
ValidOrNull(rect) == IF IsValidRectF(rect) THEN rect ELSE NullRectF

\* the overlap in fractions of the trimmed crop
MappedOverlap(left, top, right, bottom, crop, effectiveWidth, effectiveHeight) ==
  ValidOrNull(normalized(RectFOfPoints(
    MappedEdge(left, crop.left, effectiveWidth),
    MappedEdge(top, crop.top, effectiveHeight),
    MappedEdge(right, crop.left, effectiveWidth),
    MappedEdge(bottom, crop.top, effectiveHeight))))

\* the overlap as it would be if a region outside the crop were mapped to the
\* whole thumbnail
Overlap_FullFrameWhenOutside(left, top, right, bottom, crop) ==
  IF right <= left \/ bottom <= top
  THEN QRectF(DZero, DZero, DOne, DOne)
  ELSE MappedOverlap(left, top, right, bottom, crop,
                     Max(1, crop.right - crop.left), Max(1, crop.bottom - crop.top))

\* the overlap, from its pixel edges on
Overlap(left, top, right, bottom, crop) ==
  IF right <= left \/ bottom <= top THEN NullRectF
  ELSE MappedOverlap(left, top, right, bottom, crop,
                     Max(1, crop.right - crop.left), Max(1, crop.bottom - crop.top))

MapOverlap_FullFrameWhenOutside(sourcePixelRegion, crop) ==
  Overlap_FullFrameWhenOutside(
    Max(sourcePixelRegion.x, crop.left), Max(sourcePixelRegion.y, crop.top),
    Min(sourcePixelRegion.x + sourcePixelRegion.width, crop.right),
    Min(sourcePixelRegion.y + sourcePixelRegion.height, crop.bottom), crop)

\* mapSourceRegionToThumbnailRegion: the overlap of the source region with the
\* trimmed crop, in fractions of the crop
MapOverlap(sourcePixelRegion, crop) ==
  Overlap(Max(sourcePixelRegion.x, crop.left), Max(sourcePixelRegion.y, crop.top),
          Min(sourcePixelRegion.x + sourcePixelRegion.width, crop.right),
          Min(sourcePixelRegion.y + sourcePixelRegion.height, crop.bottom), crop)

\* mapSourceRegionToThumbnailRegion, from the source region in pixels on
MapPixelRegion(sourcePixelRegion, thumbnailCrop, sourceClientSize, thumbnailSize) ==
  IF sourcePixelRegion.width <= 0 \/ sourcePixelRegion.height <= 0 THEN NullRectF
  ELSE MapOverlap(sourcePixelRegion,
                  TrimmedCrop(thumbnailCrop, sourceClientSize, thumbnailSize))

\* mapSourceRegionToThumbnailRegion, from the tests of the two sizes on
MapRegion(sourceRegion, thumbnailCrop, sourceClientSize, thumbnailSize) ==
  IF \/ sourceClientSize.width <= 0 \/ sourceClientSize.height <= 0
     \/ thumbnailSize.width <= 0 \/ thumbnailSize.height <= 0
  THEN NullRectF
  ELSE MapPixelRegion(regionToPixels(sourceRegion, sourceClientSize), thumbnailCrop,
                      sourceClientSize, thumbnailSize)

\* the crops of the thumbnails explored, for which the mapping of the
\* tabulated regions is computed once
TabulatedCrops ==
  { Region(0, 0, 100000, 100000), Region(0, 20000, 100000, 10000),
    Region(0, 0, 100000, 25000), Region(0, 20000, 90000, 10000) }

TabulatedMappings ==
  [region \in TabulatedRegions, crop \in TabulatedCrops,
   sourceSize \in TabulatedSizes, thumbnailSize \in TabulatedSizes |->
     MapRegion(region, crop, sourceSize, thumbnailSize)]

\* RegionAlertMonitor::mapSourceRegionToThumbnailRegion
mapSourceRegionToThumbnailRegion(sourceRegion, thumbnailCrop, sourceClientSize, thumbnailSize) ==
  Tabulated(TabulatedMappings,
            <<sourceRegion, thumbnailCrop, sourceClientSize, thumbnailSize>>,
            MapRegion(sourceRegion, thumbnailCrop, sourceClientSize, thumbnailSize))

\* regionToPixels on a QRectF, from QRectF::normalized() on
RectFEdgesToPixels(rect, sourceSize) ==
  EdgesToPixels(RectFEdges(normalized(rect)), sourceSize)

\* the rectangles the tabulated mappings give, whose pixel rectangles are
\* computed once
TabulatedRectFs ==
  { TabulatedMappings[call] : call \in DOMAIN TabulatedMappings }

TabulatedRectFPixels ==
  [rect \in TabulatedRectFs, size \in TabulatedSizes |->
     RectFEdgesToPixels(rect, size)]

\* RegionAlertMonitor::regionToPixels on a QRectF
RectFToPixels(rect, sourceSize) ==
  Tabulated(TabulatedRectFPixels, <<rect, sourceSize>>,
            RectFEdgesToPixels(rect, sourceSize))

\* the part of an extent that starts at before which lies in lo..hi - 1
ClippedExtent(before, extent, lo, hi) ==
  Max(0, Min(before + extent, hi) - Max(before, lo))

RECURSIVE ClippedRuns(_, _, _, _)
ClippedRuns(runs, before, lo, hi) ==
  IF runs = <<>> THEN <<>>
  ELSE <<Run(ClippedExtent(before, Head(runs).cols, lo, hi), Head(runs).value)>>
         \o ClippedRuns(Tail(runs), before + Head(runs).cols, lo, hi)

\* QImage::copy(rect): the scan lines of the rectangle
RECURSIVE CopyScanLines(_, _, _)
CopyScanLines(bands, before, rect) ==
  IF bands = <<>> THEN <<>>
  ELSE <<Band(ClippedExtent(before, Head(bands).rows, rect.y, rect.y + rect.height),
              JoinedRuns(ClippedRuns(Head(bands).runs, 0, rect.x, rect.x + rect.width)))>>
         \o CopyScanLines(Tail(bands), before + Head(bands).rows, rect)

\* QImage::copy(rect), for a rectangle inside the image
copy(img, rect) ==
  [width |-> rect.width, height |-> rect.height,
   bands |-> JoinedBands(CopyScanLines(img.bands, 0, rect))]

-----------------------------------------------------------------------------
(* Frame validation and captureClientArea.  What the platform does for one  *)
(* call is the input win:                                                   *)
(*   win.usable      hwnd && IsWindow(hwnd) && !IsIconic(hwnd)              *)
(*   win.clientSize  the size GetClientRect reports (0 x 0 when it fails)   *)
(*   win.gdiReady    GetDC(nullptr), CreateCompatibleDC and CreateDIBSection*)
(*                   succeed                                                *)
(*   win.clientDc, win.screen, win.printWindow                              *)
(*                   per sub-method [fault, buffer]: the status of the API  *)
(*                   call that failed ("" when none did) and the pixels the *)
(*                   call left in the buffer                                *)

kTargetSampleCount == 2500

\* qMax(1, static_cast<int>(std::sqrt(kTargetSampleCount)))
approxAxisSamples == 50

\* the grid sampled by the two frame tests: every step-th column and row
SampleSteps(extent) ==
  LET step == Max(1, extent \div approxAxisSamples)
  IN { v \in 0..(extent - 1) : v % step = 0 }

SamplePoints(image) == SampleSteps(image.width) \X SampleSteps(image.height)

\* the sampled values of the grayscale conversion
SampleValue(image, p) == qGray(pixelAt(image, p[1], p[2]))

SampleValues(image) == { SampleValue(image, p) : p \in SamplePoints(image) }

MaxOf(S) == CHOOSE v \in S : \A u \in S : u <= v

MinOf(S) == CHOOSE v \in S : \A u \in S : v <= u

\* isFrameAlmostSolidBlack
isFrameAlmostSolidBlack(image) ==
  IF isNull(image) \/ image.width <= 0 \/ image.height <= 0 THEN TRUE
  ELSE
  LET points == SamplePoints(image)
      sampleCount == Cardinality(points)
      nearBlackCount == Cardinality({ p \in points : SampleValue(image, p) <= 2 })
      dynamicRange == MaxOf(SampleValues(image)) - MinOf(SampleValues(image))
  IN IF sampleCount <= 0 THEN TRUE
     ELSE nearBlackCount * 1000 >= 995 * sampleCount /\ dynamicRange <= 4

RECURSIVE SumOfSamples(_, _)
SumOfSamples(image, points) ==
  IF points = {} THEN 0
  ELSE LET p == CHOOSE q \in points : TRUE
       IN SampleValue(image, p) + SumOfSamples(image, points \ {p})

\* isFrameLowContrastDark
isFrameLowContrastDark(image) ==
  IF isNull(image) \/ image.width <= 0 \/ image.height <= 0 THEN TRUE
  ELSE
  LET points == SamplePoints(image)
      sampleCount == Cardinality(points)
      dynamicRange == MaxOf(SampleValues(image)) - MinOf(SampleValues(image))
  IN IF sampleCount <= 0 THEN TRUE
     ELSE SumOfSamples(image, points) <= 40 * sampleCount /\ dynamicRange <= 18

Outcome(ok, status, image) == [ok |-> ok, status |-> status, image |-> image]

\* tryConsumeBuffer as it would be without the test for black frames
tryConsumeBuffer_AcceptingBlack(methodName, buffer, allowSolidBlack, rejectLowContrast) ==
  IF isNull(buffer) THEN [ok |-> FALSE, status |-> methodName \o ":null_frame",
                          image |-> NullImage]
  ELSE [ok |-> TRUE, status |-> methodName, image |-> buffer]

\* captureClientArea: tryConsumeBuffer
tryConsumeBuffer(methodName, buffer, allowSolidBlack, rejectLowContrast) ==
  IF isNull(buffer) THEN Outcome(FALSE, methodName \o ":null_frame", NullImage)
  ELSE IF ~allowSolidBlack /\ isFrameAlmostSolidBlack(buffer)
  THEN Outcome(FALSE, methodName \o ":black_frame", NullImage)
  ELSE IF rejectLowContrast /\ isFrameLowContrastDark(buffer)
  THEN Outcome(FALSE, methodName \o ":low_contrast_dark_frame", NullImage)
  ELSE Outcome(TRUE, methodName, buffer)

\* captureClientArea: tryScreenCapture, tryClientDcCapture, tryPrintWindowCapture
TrySubMethod(methodName, grab, allowSolidBlack, rejectLowContrast) ==
  IF grab.fault # "" THEN Outcome(FALSE, grab.fault, NullImage)
  ELSE tryConsumeBuffer(methodName, grab.buffer, allowSolidBlack, rejectLowContrast)

\* captureClientArea: the sub-methods the flags permit, in the order tried
SubMethodOrder(preferScreenCapture, allowPrintWindow, allowClientDc) ==
  LET clientDc == IF allowClientDc THEN <<"BitBlt(clientDC)">> ELSE <<>>
      screen == <<"BitBlt(screenDC_clientRect)">>
      printWindow == IF allowPrintWindow THEN <<"PrintWindow(PW_CLIENTONLY)">> ELSE <<>>
  IN IF preferScreenCapture THEN screen \o clientDc \o printWindow
     ELSE clientDc \o screen \o printWindow

GrabOf(win, methodName) ==
  CASE methodName = "BitBlt(clientDC)" -> win.clientDc
    [] methodName = "BitBlt(screenDC_clientRect)" -> win.screen
    [] OTHER -> win.printWindow

\* captureClientArea: the chain of sub-methods from position i on, stopping
\* at the first that succeeds; last is the status of the previous attempt
RECURSIVE TrySubMethods(_, _, _, _, _, _)
TrySubMethods(order, i, win, allowSolidBlack, rejectLowContrast, last) ==
  IF i > Len(order) THEN Outcome(FALSE, last, NullImage)
  ELSE LET tried == TrySubMethod(order[i], GrabOf(win, order[i]), allowSolidBlack,
                                 rejectLowContrast)
       IN IF tried.ok THEN tried
          ELSE TrySubMethods(order, i + 1, win, allowSolidBlack, rejectLowContrast,
                             tried.status)

\* RegionAlertMonitor::captureClientArea; status is what the call leaves in
\* *outCaptureMethod, which its callers pass in empty
captureClientArea(win, allowSolidBlack, preferScreenCapture, allowPrintWindow, rejectLowContrast, allowClientDc) ==
  IF ~win.usable THEN Outcome(FALSE, "", NullImage)
  ELSE IF win.clientSize.width <= 0 \/ win.clientSize.height <= 0 \/ ~win.gdiReady
  THEN Outcome(FALSE, "none", NullImage)
  ELSE TrySubMethods(SubMethodOrder(preferScreenCapture, allowPrintWindow, allowClientDc),
                     1, win, allowSolidBlack, rejectLowContrast, "none")

-----------------------------------------------------------------------------
(* Capture: the two strategies of pollRules.  What the platform delivers   *)
(* for one rule in one tick is the input env of the evaluation:            *)
(*   env.sourceClientSize  the client size pollRules finds for the source  *)
(*                         window (0 x 0 when IsWindow or GetClientRect    *)
(*                         fails there)                                    *)
(*   env.windowUsable      IsWindow(sourceHwnd) && !IsIconic(sourceHwnd)   *)
(*                         in captureFromInternalCroppedThumbnail          *)
(*   env.sourceClientSizeLater  the client size GetClientRect reports when *)
(*                         captureFromInternalCroppedThumbnail, given no   *)
(*                         size, asks again (0 x 0 when it fails)          *)
(*   env.sourceValidAtSurface  IsWindow(sourceHwnd) in ensureReady         *)
(*   env.surface           whether the host window can be created and is   *)
(*                         a window when the mirror is registered, the     *)
(*                         mirror registered and its properties updated    *)
(*   env.internal          outcome of captureClientArea on the host window *)
(*                         of the character's capture surface              *)
(*   env.thumbnail         whether m_characterThumbnails holds a live      *)
(*                         widget for the character, and the widget's crop *)
(*   env.fallback          outcome of captureClientArea on that widget     *)
(*   env.host, env.thumbnailWindow   the two windows these calls read       *)
(* an outcome being [ok, status, image].                                   *)

NullHwnd == 0

\* an entry of a QHash<QString, HWND>; the hash is the sequence of its
\* entries, of distinct keys, in the order its iterators visit them
HashEntry(key, hwnd) == [key |-> key, hwnd |-> hwnd]

\* QHash::value(key, nullptr)
HashValue(hash, key) ==
  IF \E i \in DOMAIN hash : hash[i].key = key
  THEN hash[CHOOSE i \in DOMAIN hash : hash[i].key = key].hwnd
  ELSE NullHwnd

\* pollRules: the scan from constBegin() to the first key that equals the
\* name but for the case of its letters
RECURSIVE ScanFrom(_, _, _)
ScanFrom(hash, characterName, i) ==
  IF i > Len(hash) THEN NullHwnd
  ELSE IF EqualsIgnoreCase(hash[i].key, characterName) THEN hash[i].hwnd
  ELSE ScanFrom(hash, characterName, i + 1)

\* m_characterWindows.value(characterName, nullptr), then the
\* case-insensitive scan of pollRules
ResolveSourceHwnd(windows, characterName) ==
  IF HashValue(windows, characterName) # NullHwnd
  THEN HashValue(windows, characterName)
  ELSE ScanFrom(windows, characterName, 1)

\* RegionAlertMonitor::normalizeCharacterKey
normalizeCharacterKey(characterName) == toLower(trimmed(characterName))

\* a default-constructed InternalRegionAlertCaptureSurface: no host widget,
\* no mirror registered (thumbnail is the source the mirror is registered for)
NewSurface == [hostWidget |-> FALSE, thumbnail |-> NullHwnd]

\* RegionAlertMonitor::ensureInternalCaptureSurface, on the surface map
ensureInternalCaptureSurface(surfaces, characterKey) ==
  LET normalizedKey == normalizeCharacterKey(characterKey)
  IN IF normalizedKey = <<>> \/ normalizedKey \in DOMAIN surfaces THEN surfaces
     ELSE [k \in DOMAIN surfaces \cup {normalizedKey} |->
             IF k = normalizedKey THEN NewSurface ELSE surfaces[k]]

\* InternalRegionAlertCaptureSurface::ensureReady for a region and a capture
\* size that are not empty: the surface it leaves, and its verdict
ensureReady(surface, sourceHwnd, env) ==
  IF sourceHwnd = NullHwnd \/ ~env.sourceValidAtSurface
  THEN [surface |-> surface, ok |-> FALSE, status |-> "source_window_invalid"]
  ELSE IF ~surface.hostWidget /\ ~env.surface.hostCreated
  THEN [surface |-> NewSurface, ok |-> FALSE, status |-> "host_window_create_failed"]
  ELSE
  LET hosted == [surface EXCEPT !.hostWidget = TRUE] IN
  IF hosted.thumbnail # sourceHwnd /\ ~env.surface.destinationValid
  THEN [surface |-> [hosted EXCEPT !.thumbnail = NullHwnd], ok |-> FALSE,
        status |-> "destination_window_invalid"]
  ELSE IF hosted.thumbnail # sourceHwnd /\ ~env.surface.registered
  THEN [surface |-> [hosted EXCEPT !.thumbnail = NullHwnd], ok |-> FALSE,
        status |-> "DwmRegisterThumbnail:hr"]
  ELSE
  LET registered == [hosted EXCEPT !.thumbnail = sourceHwnd] IN
  IF ~env.surface.updated
  THEN [surface |-> registered, ok |-> FALSE,
        status |-> "DwmUpdateThumbnailProperties:hr"]
  ELSE [surface |-> registered, ok |-> TRUE, status |-> "ok"]

FailedCapture(method) == [ok |-> FALSE, image |-> NullImage, method |-> method]

\* a capture result together with the surface map the attempt leaves
WithSurfaces(capture, surfaces) ==
  [ok |-> capture.ok, image |-> capture.image, method |-> capture.method,
   surfaces |-> surfaces]

\* captureFromInternalCroppedThumbnail, from the source region in pixels on
InternalFromPixels(surfaces, characterName, sourceHwnd, sourcePixelRegion, env) ==
  IF \/ sourcePixelRegion.width < kMinRegionPixelSize
     \/ sourcePixelRegion.height < kMinRegionPixelSize
  THEN WithSurfaces(FailedCapture(<<"source_region_too_small">>), surfaces)
  ELSE
  LET ensured == ensureInternalCaptureSurface(surfaces, characterName)
      key == normalizeCharacterKey(characterName)
      ready == ensureReady(ensured[key], sourceHwnd, env)
      prepared == [ensured EXCEPT ![key] = ready.surface]
  IN
  IF ~ready.ok
  THEN WithSurfaces(FailedCapture(<<"surface_prepare_failed", ":", ready.status>>),
                    prepared)
  ELSE IF ~env.internal.ok
  THEN WithSurfaces(FailedCapture(<<"surface_capture_failed", ":", env.internal.status>>),
                    prepared)
  ELSE IF \/ env.internal.image.width < kMinRegionPixelSize
          \/ env.internal.image.height < kMinRegionPixelSize
  THEN WithSurfaces(FailedCapture(<<"captured_frame_too_small">>), prepared)
  ELSE WithSurfaces(
         [ok |-> TRUE, image |-> env.internal.image,
          method |-> <<"internal_cropped_thumbnail", ":", env.internal.status, ":",
                       ToString(env.internal.image.width), "x",
                       ToString(env.internal.image.height)>>],
         prepared)

\* captureFromInternalCroppedThumbnail: the size it is given, or, when that
\* is empty, the size GetClientRect reports to it
effectiveSourceSize(env) ==
  IF env.sourceClientSize.width <= 0 \/ env.sourceClientSize.height <= 0
  THEN env.sourceClientSizeLater
  ELSE env.sourceClientSize

\* RegionAlertMonitor::captureFromInternalCroppedThumbnail
captureFromInternalCroppedThumbnail(surfaces, characterName, sourceHwnd, regionNormalized, env) ==
  IF sourceHwnd = NullHwnd \/ ~env.windowUsable
  THEN WithSurfaces(FailedCapture(<<"source_window_unavailable">>), surfaces)
  ELSE IF effectiveSourceSize(env).width <= 0 \/ effectiveSourceSize(env).height <= 0
  THEN WithSurfaces(FailedCapture(<<"source_client_size_unavailable">>), surfaces)
  ELSE InternalFromPixels(surfaces, characterName, sourceHwnd,
                          regionToPixels(regionNormalized, effectiveSourceSize(env)), env)

\* captureFromVisibleThumbnailFallback, from the mapped region in pixels on
FallbackFromPixels(mappedPixelRegion, env) ==
  IF \/ mappedPixelRegion.width < kMinRegionPixelSize
     \/ mappedPixelRegion.height < kMinRegionPixelSize
  THEN FailedCapture(<<"thumbnail_mapped_region_too_small">>)
  ELSE [ok |-> TRUE, image |-> copy(env.fallback.image, mappedPixelRegion),
        method |-> <<"thumbnail_hwnd_capture", ":", env.fallback.status>>]

\* captureFromVisibleThumbnailFallback, from the mapped region on
FallbackFromMapping(mappedRegion, thumbnailSize, env) ==
  IF ~IsValidRectF(mappedRegion) THEN FailedCapture(<<"thumbnail_mapping_empty">>)
  ELSE FallbackFromPixels(RectFToPixels(mappedRegion, thumbnailSize), env)

\* RegionAlertMonitor::captureFromVisibleThumbnailFallback
captureFromVisibleThumbnailFallback(regionNormalized, env) ==
  IF ~env.thumbnail.present THEN FailedCapture(<<"no_thumbnail_widget">>)
  ELSE IF ~env.fallback.ok
  THEN FailedCapture(<<"thumbnail_capture_failed", ":", env.fallback.status>>)
  ELSE
  LET thumbnailSize == Size(env.fallback.image.width, env.fallback.image.height)
      mappingSourceSize ==
        IF env.sourceClientSize.width <= 0 \/ env.sourceClientSize.height <= 0
        THEN thumbnailSize ELSE env.sourceClientSize
  IN FallbackFromMapping(
       mapSourceRegionToThumbnailRegion(
         regionNormalized, env.thumbnail.crop, mappingSourceSize, thumbnailSize),
       thumbnailSize, env)

\* the chain as it would be with the visible thumbnail tried first
CaptureChain_FallbackFirst(surfaces, characterName, sourceHwnd, regionNormalized, env) ==
  LET fallback == captureFromVisibleThumbnailFallback(regionNormalized, env)
  IN IF fallback.ok THEN WithSurfaces(fallback, surfaces)
     ELSE captureFromInternalCroppedThumbnail(
            surfaces, characterName, sourceHwnd, regionNormalized, env)

\* pollRules: the visible thumbnail is tried when the internal strategy left
\* no frame
OrFallback(internal, regionNormalized, env) ==
  IF internal.ok /\ ~isNull(internal.image) THEN internal
  ELSE WithSurfaces(captureFromVisibleThumbnailFallback(regionNormalized, env),
                    internal.surfaces)

\* the strategy chain at the head of a rule's evaluation in pollRules
CaptureChain(surfaces, characterName, sourceHwnd, regionNormalized, env) ==
  OrFallback(captureFromInternalCroppedThumbnail(
               surfaces, characterName, sourceHwnd, regionNormalized, env),
             regionNormalized, env)

\* the platform resources a surface holds: its host window and its mirror
ResourcesOf(key, surface) ==
  (IF surface.hostWidget THEN {<<"host", key>>} ELSE {})
  \cup (IF surface.thumbnail # NullHwnd
        THEN {<<"thumbnail", key, surface.thumbnail>>} ELSE {})

\* the destructor as it would be if it released nothing
SurfaceDestructor_Leaking(key, surface) == {}

\* ~InternalRegionAlertCaptureSurface with cleanup and releaseThumbnail:
\* the resources the destruction of a surface gives back
SurfaceDestructor(key, surface) == ResourcesOf(key, surface)

\* the normalized names of the enabled rules, as pollRules and
\* reloadFromConfig collect them before pruning
ActiveCharacterKeys(rules) ==
  { normalizeCharacterKey(rules[i].characterName) :
      i \in {j \in 1..Len(rules) : rules[j].enabled} } \ {<<>>}

\* RegionAlertMonitor::pruneStaleInternalCaptureSurfaces: the map it leaves
pruneStaleInternalCaptureSurfaces(surfaces, activeCharacterKeys) ==
  [k \in DOMAIN surfaces \cap activeCharacterKeys |-> surfaces[k]]

\* the resources given back when the surfaces of the keys in removed are deleted
ReleasedBy(surfaces, removed) ==
  UNION { SurfaceDestructor(k, surfaces[k]) : k \in removed }

\* the live resources after the surfaces went from before to after in the
\* captures of a tick: ensureHost and ensureThumbnail acquire, cleanup and
\* releaseThumbnail give back
ResourcesAfterCaptures(live, before, after) ==
  (live \ UNION { ResourcesOf(k, before[k]) : k \in DOMAIN before })
  \cup UNION { ResourcesOf(k, after[k]) : k \in DOMAIN after }

-----------------------------------------------------------------------------
(* One rule's evaluation inside pollRules *)

\* the pipeline-key check as it would be if it only stored the new key
AdoptPipelineKey_KeepingBaseline(state, capturePipelineKey) ==
  [state EXCEPT !.capturePipelineKey = capturePipelineKey]

\* the pipeline-key check as it would be if a discontinuity cleared the
\* cooldown deadline with the baseline, as a failure reset does
AdoptPipelineKey_ClearingCooldown(state, capturePipelineKey) ==
  IF state.capturePipelineKey # capturePipelineKey
  THEN [state EXCEPT !.capturePipelineKey = capturePipelineKey,
                     !.baselineFrame = NullImage,
                     !.consecutiveFramesAboveThreshold = 0,
                     !.cooldownUntilMs = 0]
  ELSE state

\* the pipeline-key check as it would be if the key were never stored
AdoptPipelineKey_Ignoring(state, capturePipelineKey) == state

\* pollRules, the pipeline-key check that follows a successful capture
AdoptPipelineKey(state, capturePipelineKey) ==
  IF state.capturePipelineKey # capturePipelineKey
  THEN [state EXCEPT !.capturePipelineKey = capturePipelineKey,
                     !.baselineFrame = NullImage,
                     !.consecutiveFramesAboveThreshold = 0]
  ELSE state

\* the success path as it would be if it left the failure count alone
MarkCaptured_KeepingFailures(state) == state

\* pollRules: state.consecutiveCaptureFailures = 0 after a successful capture
MarkCaptured(state) == [state EXCEPT !.consecutiveCaptureFailures = 0]

\* the baseline test as it would be with && in place of ||
NeedsBaseline_BothConditions(state, currentFrame) ==
  ~isNull(state.baselineFrame) /\ sizeOf(state.baselineFrame) # sizeOf(currentFrame)

\* pollRules: whether the frame only (re)initialises the baseline
NeedsBaseline(state, currentFrame) ==
  isNull(state.baselineFrame) \/ sizeOf(state.baselineFrame) # sizeOf(currentFrame)

\* the threshold as it would be if the configured value were used as it is
EffectiveThreshold_Unclamped(rule) == rule.thresholdPercent

\* pollRules: const int threshold = qBound(1, rule.thresholdPercent, 100)
EffectiveThreshold(rule) == qBound(1, rule.thresholdPercent, 100)

\* pollRules: the streak as counted by this tick
CountedStreak(state, isAboveThreshold) ==
  IF isAboveThreshold THEN state.consecutiveFramesAboveThreshold + 1
  ELSE state.consecutiveFramesAboveThreshold

\* bool triggered as it would be if one frame above the threshold sufficed
IsTriggered_AtFirstFrame(state, isAboveThreshold, tickNow) ==
  /\ isAboveThreshold
  /\ tickNow >= state.cooldownUntilMs
  /\ CountedStreak(state, isAboveThreshold) >= kConsecutiveFramesRequired - 1

\* bool triggered as it would be without the debouncing: any frame above the
\* threshold alerts
IsTriggered_OnAnyFrameAbove(state, isAboveThreshold, tickNow) ==
  isAboveThreshold

\* bool triggered as it would be if three frames in a row were required
IsTriggered_AtThirdFrame(state, isAboveThreshold, tickNow) ==
  /\ isAboveThreshold
  /\ tickNow >= state.cooldownUntilMs
  /\ CountedStreak(state, isAboveThreshold) >= kConsecutiveFramesRequired + 1

\* pollRules: bool triggered
IsTriggered(state, isAboveThreshold, tickNow) ==
  /\ isAboveThreshold
  /\ tickNow >= state.cooldownUntilMs
  /\ CountedStreak(state, isAboveThreshold) >= kConsecutiveFramesRequired

\* the transitions as they would be without the branch that absorbs a change
\* seen during the cooldown
AfterComparison_CountingInCooldown(state, currentFrame, isAboveThreshold, tickNow, cooldownMs) ==
  IF isAboveThreshold
  THEN IF IsTriggered(state, isAboveThreshold, tickNow)
       THEN [state EXCEPT !.cooldownUntilMs = tickNow + cooldownMs,
                          !.consecutiveFramesAboveThreshold = 0,
                          !.baselineFrame = currentFrame]
       ELSE [state EXCEPT !.consecutiveFramesAboveThreshold =
                              CountedStreak(state, isAboveThreshold)]
  ELSE [state EXCEPT !.consecutiveFramesAboveThreshold = 0,
                     !.baselineFrame = currentFrame]

\* the transitions as they would be if the cooldown branch adopted the frame
\* and left the incremented streak in place
AfterComparison_StreakKeptInCooldown(state, currentFrame, isAboveThreshold, tickNow, cooldownMs) ==
  IF isAboveThreshold
  THEN IF IsTriggered(state, isAboveThreshold, tickNow)
       THEN [state EXCEPT !.cooldownUntilMs = tickNow + cooldownMs,
                          !.consecutiveFramesAboveThreshold = 0,
                          !.baselineFrame = currentFrame]
       ELSE IF tickNow < state.cooldownUntilMs
       THEN [state EXCEPT !.consecutiveFramesAboveThreshold =
                              CountedStreak(state, isAboveThreshold),
                          !.baselineFrame = currentFrame]
       ELSE [state EXCEPT !.consecutiveFramesAboveThreshold =
                              CountedStreak(state, isAboveThreshold)]
  ELSE [state EXCEPT !.consecutiveFramesAboveThreshold = 0,
                     !.baselineFrame = currentFrame]

\* the transitions as they would be if a trigger extended the previous
\* deadline instead of starting the cooldown at the tick's timestamp
AfterComparison_CooldownFromDeadline(state, currentFrame, isAboveThreshold, tickNow, cooldownMs) ==
  IF isAboveThreshold
  THEN IF IsTriggered(state, isAboveThreshold, tickNow)
       THEN [state EXCEPT !.cooldownUntilMs = @ + cooldownMs,
                          !.consecutiveFramesAboveThreshold = 0,
                          !.baselineFrame = currentFrame]
       ELSE IF tickNow < state.cooldownUntilMs
       THEN [state EXCEPT !.consecutiveFramesAboveThreshold = 0,
                          !.baselineFrame = currentFrame]
       ELSE [state EXCEPT !.consecutiveFramesAboveThreshold =
                              CountedStreak(state, isAboveThreshold)]
  ELSE [state EXCEPT !.consecutiveFramesAboveThreshold = 0,
                     !.baselineFrame = currentFrame]

\* the transitions as they would be if every comparison adopted the frame
AfterComparison_AlwaysReplacing(state, currentFrame, isAboveThreshold, tickNow, cooldownMs) ==
  IF isAboveThreshold
  THEN IF IsTriggered(state, isAboveThreshold, tickNow)
       THEN [state EXCEPT !.cooldownUntilMs = tickNow + cooldownMs,
                          !.consecutiveFramesAboveThreshold = 0,
                          !.baselineFrame = currentFrame]
       ELSE IF tickNow < state.cooldownUntilMs
       THEN [state EXCEPT !.consecutiveFramesAboveThreshold = 0,
                          !.baselineFrame = currentFrame]
       ELSE [state EXCEPT !.consecutiveFramesAboveThreshold =
                              CountedStreak(state, isAboveThreshold),
                          !.baselineFrame = currentFrame]
  ELSE [state EXCEPT !.consecutiveFramesAboveThreshold = 0,
                     !.baselineFrame = currentFrame]

\* the state update as it would be if an above-threshold tick that does not
\* trigger left the streak as it found it
AfterComparison_NotCounting(state, currentFrame, isAboveThreshold, tickNow, cooldownMs) ==
  IF isAboveThreshold
  THEN IF IsTriggered(state, isAboveThreshold, tickNow)
       THEN [state EXCEPT !.cooldownUntilMs = tickNow + cooldownMs,
                          !.consecutiveFramesAboveThreshold = 0,
                          !.baselineFrame = currentFrame]
       ELSE IF tickNow < state.cooldownUntilMs
       THEN [state EXCEPT !.consecutiveFramesAboveThreshold = 0,
                          !.baselineFrame = currentFrame]
       ELSE state
  ELSE [state EXCEPT !.consecutiveFramesAboveThreshold = 0,
                     !.baselineFrame = currentFrame]

\* pollRules: the state a comparison leaves behind
AfterComparison(state, currentFrame, isAboveThreshold, tickNow, cooldownMs) ==
  IF isAboveThreshold
  THEN IF IsTriggered(state, isAboveThreshold, tickNow)
       THEN [state EXCEPT !.cooldownUntilMs = tickNow + cooldownMs,
                          !.consecutiveFramesAboveThreshold = 0,
                          !.baselineFrame = currentFrame]
       ELSE IF tickNow < state.cooldownUntilMs
       THEN [state EXCEPT !.consecutiveFramesAboveThreshold = 0,
                          !.baselineFrame = currentFrame]
       ELSE [state EXCEPT !.consecutiveFramesAboveThreshold =
                              CountedStreak(state, isAboveThreshold)]
  ELSE [state EXCEPT !.consecutiveFramesAboveThreshold = 0,
                     !.baselineFrame = currentFrame]

NoScore == [num |-> 0, den |-> 1]

\* what one evaluation did: the state it met, the capture it used, its verdict
LogEntry(i, ruleKey, before, kind, captureKey, frame, score, above, cooling, triggered) ==
  [index |-> i, ruleKey |-> ruleKey, kind |-> kind,
   hadBaseline |-> ~isNull(before.baselineFrame),
   streakBefore |-> before.consecutiveFramesAboveThreshold,
   cooldownUntilBefore |-> before.cooldownUntilMs,
   pipelineChanged |-> captureKey # <<>> /\ before.capturePipelineKey # captureKey,
   stateReset |-> /\ kind = "capture_failed"
                  /\ before.consecutiveCaptureFailures + 1
                       >= kCaptureFailureResetThreshold,
   captureKey |-> captureKey, frame |-> frame, score |-> score,
   isAboveThreshold |-> above, inCooldown |-> cooling, triggered |-> triggered]

\* the body of the second loop of pollRules from the rule's key on; acc
\* carries the rule states, the events emitted, the log and the surfaces so far
EvaluateKeyed(acc, i, rule, ruleKey, tickNow, cooldownMs, capture) ==
  LET characterName == trimmed(rule.characterName)
      states == InsertDefault(acc.states, ruleKey)
      state == states[ruleKey]
      seen == [acc EXCEPT !.surfaces = capture.surfaces]
  IN
  IF ~capture.ok
  THEN [seen EXCEPT
          !.states = StoreState(states, ruleKey, noteCaptureFailure(state)),
          !.log = Append(@, LogEntry(i, ruleKey, state, "capture_failed", <<>>,
                                     NullImage, NoScore, FALSE, FALSE, FALSE))]
  ELSE
  LET capturePipelineKey == trimmed(capture.method)
      captured == MarkCaptured(AdoptPipelineKey(state, capturePipelineKey))
      currentFrame == preprocessForDiff(capture.image)
  IN
  IF isNull(currentFrame)
  THEN [seen EXCEPT
          !.states = StoreState(states, ruleKey, noteCaptureFailure(captured)),
          !.log = Append(@, LogEntry(i, ruleKey, state, "preprocess_failed",
                                     capturePipelineKey, NullImage, NoScore,
                                     FALSE, FALSE, FALSE))]
  ELSE IF NeedsBaseline(captured, currentFrame)
  THEN [seen EXCEPT
          !.states = StoreState(states, ruleKey,
                        [captured EXCEPT !.baselineFrame = currentFrame,
                                         !.consecutiveFramesAboveThreshold = 0]),
          !.log = Append(@, LogEntry(i, ruleKey, state, "baseline_initialized",
                                     capturePipelineKey, currentFrame, NoScore,
                                     FALSE, FALSE, FALSE))]
  ELSE
  LET score == changedPercent(captured.baselineFrame, currentFrame)
      isAboveThreshold == ScoreAtLeast(score, EffectiveThreshold(rule))
      inCooldown == tickNow < captured.cooldownUntilMs
      triggered == IsTriggered(captured, isAboveThreshold, tickNow)
  IN [seen EXCEPT
        !.states = StoreState(states, ruleKey,
                      AfterComparison(captured, currentFrame, isAboveThreshold,
                                      tickNow, cooldownMs)),
        !.emitted = IF triggered
                    THEN Append(@, [characterName |-> characterName,
                                    ruleId |-> rule.id, label |-> rule.label,
                                    scorePercent |-> score,
                                    ruleKey |-> ruleKey, index |-> i])
                    ELSE @,
        !.log = Append(@, LogEntry(i, ruleKey, state, "compared",
                                   capturePipelineKey, currentFrame, score,
                                   isAboveThreshold, inCooldown, triggered))]

\* the body of the second loop of pollRules for the rule at position i, from
\* the outcome of its capture on
EvaluateCaptured(acc, i, rule, tickNow, cooldownMs, capture) ==
  EvaluateKeyed(acc, i, rule, effectiveRuleKey(rule), tickNow, cooldownMs, capture)

\* pollRules: what the capture strategies of a rule are given, once its
\* character is resolved to a window handle
CaptureFor(surfaces, rule, env, sourceHwnd) ==
  CaptureChain(surfaces, trimmed(rule.characterName), sourceHwnd,
               rule.regionNormalized,
               [env EXCEPT !.sourceClientSize =
                  IF sourceHwnd # NullHwnd THEN env.sourceClientSize
                  ELSE Size(0, 0)])

\* the loop body as it would be without the two tests that skip a rule
EvaluateRule_SkippingNothing(acc, i, rule, env, tickNow, cooldownMs, windows) ==
  EvaluateCaptured(
    acc, i, rule, tickNow, cooldownMs,
    CaptureFor(acc.surfaces, rule, env,
               ResolveSourceHwnd(windows, trimmed(rule.characterName))))

\* the body of the second loop of pollRules for the rule at position i
EvaluateRule(acc, i, rule, env, tickNow, cooldownMs, windows) ==
  IF ~rule.enabled THEN acc
  ELSE IF trimmed(rule.characterName) = <<>> THEN acc
  ELSE EvaluateCaptured(
         acc, i, rule, tickNow, cooldownMs,
         CaptureFor(acc.surfaces, rule, env,
                    ResolveSourceHwnd(windows, trimmed(rule.characterName))))

\* the loop as it would be if a capture failure ended it (break for continue)
RECURSIVE EvaluateRules_StoppingAtFailure(_, _, _, _, _, _, _)
EvaluateRules_StoppingAtFailure(acc, i, rules, envs, tickNow, cooldownMs, windows) ==
  IF i > Len(rules) THEN acc
  ELSE LET after == EvaluateRule(acc, i, rules[i], envs[i], tickNow, cooldownMs,
                                 windows)
       IN IF Len(after.log) > Len(acc.log) /\ after.log[Len(after.log)].kind = "capture_failed"
          THEN after
          ELSE EvaluateRules_StoppingAtFailure(after, i + 1, rules, envs, tickNow,
                                               cooldownMs, windows)

\* the second loop of pollRules over m_rules, from position i on
RECURSIVE EvaluateRules(_, _, _, _, _, _, _)
EvaluateRules(acc, i, rules, envs, tickNow, cooldownMs, windows) ==
  IF i > Len(rules) THEN acc
  ELSE EvaluateRules(EvaluateRule(acc, i, rules[i], envs[i], tickNow, cooldownMs,
                                  windows),
                     i + 1, rules, envs, tickNow, cooldownMs, windows)

-----------------------------------------------------------------------------
(* The environment explored: configurations, window maps, captures *)

Rule(id, characterName, label, region, thresholdPercent, enabled) ==
  [id |-> id, characterName |-> characterName, label |-> label,
   regionNormalized |-> region, thresholdPercent |-> thresholdPercent,
   enabled |-> enabled]

\* a rule with an id (surrounded by white space) and threshold 50
RuleA == Rule(<<" ", "r1">>, <<"A", "l">>, <<"local">>,
              Region(10000, 20000, 30000, 30000), 50, TRUE)

\* a legacy rule without id, keyed by character, label and region
RuleB == Rule(<<>>, <<"B", "o", " ">>, <<"dscan">>,
              Region(50000, 50000, 25000, 25000), 150, TRUE)

Config(enabled, pollIntervalMs, cooldownMs, rules) ==
  [regionAlertsEnabled |-> enabled,
   regionAlertsPollIntervalMs |-> pollIntervalMs,
   regionAlertsCooldownMs |-> cooldownMs,
   regionAlertRules |-> rules]

\* what Config::instance() may hold when reloadFromConfig reads it
Configs ==
  { Config(TRUE, 50, 700, <<RuleA>>),
    Config(TRUE, 100, -5, <<RuleA>>),
    Config(FALSE, 100, 200, <<RuleA>>) }

\* the maps handed to setCharacterWindows
WindowMaps ==
  { <<HashEntry(<<"a", "l">>, 1), HashEntry(<<"B", "o">>, 2)>> }

RawColours == { <<10, 10, 10>>, <<30, 30, 30>> }

\* a raster of one colour left of column split and another from it on
SplitImage(w, h, split, left, right) ==
  LET leftCols == Max(0, Min(split, w))
  IN [width |-> w, height |-> h,
      bands |-> JoinedBands(
        <<Band(h, JoinedRuns(<<Run(leftCols, left), Run(w - leftCols, right)>>))>>)]

\* what a window's device contexts deliver to captureClientArea: for each
\* sub-method the API failure it meets ("" for none) and the buffer it reads
Grab(fault, buffer) == [fault |-> fault, buffer |-> buffer]

Window(usable, clientSize, gdiReady, clientDc, screen, printWindow) ==
  [usable |-> usable, clientSize |-> clientSize, gdiReady |-> gdiReady,
   clientDc |-> clientDc, screen |-> screen, printWindow |-> printWindow]

\* a window that is gone or minimized
NoWindow ==
  Window(FALSE, Size(0, 0), FALSE, Grab("", NullImage), Grab("", NullImage),
         Grab("", NullImage))

\* a window every sub-method reads the same raster from
ShowingWindow(img) ==
  Window(TRUE, Size(img.width, img.height), TRUE, Grab("", img), Grab("", img),
         Grab("", img))

SurfaceApi(hostCreated, destinationValid, registered, updated) ==
  [hostCreated |-> hostCreated, destinationValid |-> destinationValid,
   registered |-> registered, updated |-> updated]

FullCrop == Region(0, 0, 100000, 100000)

Thumbnail(present, crop) == [present |-> present, crop |-> crop]

\* what the platform delivers to one rule's evaluation when the source
\* window answers every question of the evaluation alike: the two calls of
\* captureClientArea are made with the flags the two strategies pass
PlatformEnv(windowUsable, sourceClientSize, surface, host, thumbnail, thumbnailWindow) ==
  [windowUsable |-> windowUsable, sourceClientSize |-> sourceClientSize,
   sourceClientSizeLater |-> sourceClientSize, sourceValidAtSurface |-> windowUsable,
   surface |-> surface, host |-> host,
   internal |-> captureClientArea(host, FALSE, FALSE, FALSE, FALSE, TRUE),
   thumbnail |-> thumbnail, thumbnailWindow |-> thumbnailWindow,
   fallback |-> captureClientArea(thumbnailWindow, FALSE, TRUE, FALSE, FALSE, FALSE)]

\* the source window closes between the test of
\* captureFromInternalCroppedThumbnail and that of ensureReady
ClosingSource(env) == [env EXCEPT !.sourceValidAtSurface = FALSE]

\* GetClientRect fails in pollRules and reports a size when
\* captureFromInternalCroppedThumbnail asks again
LateClientSize(env, size) ==
  [env EXCEPT !.sourceClientSize = Size(0, 0), !.sourceClientSizeLater = size]

\* rasters of the capture surface's host window: two colours side by side
RawImages ==
  { SplitImage(8, 8, 4, left, right) : left, right \in RawColours }

\* rasters of the thumbnail widget: the colours meet inside RuleA's region
ThumbnailImages ==
  { SplitImage(40, 40, 10, left, right) : left, right \in RawColours }

SourceClientSizes == { Size(40, 40) }

\* what the platform may deliver to one rule's evaluation: a source window
\* mirrored by the capture surface, or a source window that is gone or
\* minimized, each with or without a readable thumbnail widget
EnvInputs ==
  { PlatformEnv(TRUE, sz, SurfaceApi(TRUE, TRUE, TRUE, TRUE), ShowingWindow(img),
                Thumbnail(TRUE, FullCrop), NoWindow) :
      sz \in SourceClientSizes, img \in RawImages }
  \cup
  { PlatformEnv(TRUE, sz, SurfaceApi(TRUE, TRUE, TRUE, TRUE), NoWindow,
                Thumbnail(TRUE, FullCrop), w) :
      sz \in SourceClientSizes,
      w \in {ShowingWindow(img) : img \in ThumbnailImages} \cup {NoWindow} }
  \cup
  { PlatformEnv(FALSE, Size(0, 0), SurfaceApi(TRUE, TRUE, TRUE, TRUE), NoWindow,
                Thumbnail(TRUE, FullCrop), w) :
      w \in {ShowingWindow(img) : img \in ThumbnailImages} \cup {NoWindow} }

\* delay of a timer shot beyond the poll interval
TimerLateness == {0}

-----------------------------------------------------------------------------
(* The record of a rule's past, kept beside the program state to state     *)
(* properties that span several ticks.  For a rule key:                    *)
(*   windowUntil   timestamp + cooldown of the key's last alert, 0 if none *)
(*   cancelled     a failure reset happened since that alert               *)
(*   captures      successful captures since the key's state last had no   *)
(*                 baseline, counted up to 3                               *)

NoHistory == [windowUntil |-> 0, cancelled |-> FALSE, captures |-> 0]

HistoryOf(h, key) == IF key \in DOMAIN h THEN h[key] ELSE NoHistory

RecordEvaluation(past, entry, tickNow, cooldownMs) ==
  CASE entry.kind = "capture_failed" ->
         IF entry.stateReset
         THEN [past EXCEPT !.cancelled = past.windowUntil > 0, !.captures = 0]
         ELSE past
    [] entry.kind = "preprocess_failed" -> past
    [] entry.kind = "baseline_initialized" -> [past EXCEPT !.captures = 1]
    [] OTHER ->
         LET counted == [past EXCEPT !.captures = IF @ < 3 THEN @ + 1 ELSE @]
         IN IF entry.triggered
            THEN [counted EXCEPT !.windowUntil = tickNow + cooldownMs,
                                 !.cancelled = FALSE]
            ELSE counted

RECURSIVE RecordEvaluations(_, _, _, _, _)
RecordEvaluations(h, log, i, tickNow, cooldownMs) ==
  IF i > Len(log) THEN h
  ELSE RecordEvaluations(
         StoreState(h, log[i].ruleKey,
                    RecordEvaluation(HistoryOf(h, log[i].ruleKey), log[i], tickNow,
                                     cooldownMs)),
         log, i + 1, tickNow, cooldownMs)

-----------------------------------------------------------------------------
(* Handlers *)

\* Config::DEFAULT_REGION_ALERTS_POLL_INTERVAL_MS and _COOLDOWN_MS, the member
\* initialisers of the class; Config is declared outside the files at hand,
\* and reloadFromConfig overwrites both members before the timer first runs
DefaultPollIntervalMs == 1000
DefaultCooldownMs == 5000

\* the monitor from its construction to its destruction
Constructed == [alive |-> TRUE, released |-> {}]

\* the monitor after ~RegionAlertMonitor, which gave back the resources
Destroyed(resources) == [alive |-> FALSE, released |-> resources]

\* RegionAlertMonitor::RegionAlertMonitor
MonitorConstructed ==
  /\ m_enabled = FALSE
  /\ m_pollIntervalMs = DefaultPollIntervalMs
  /\ m_cooldownMs = DefaultCooldownMs
  /\ m_rules = <<>>
  /\ m_characterWindows = <<>>
  /\ m_ruleStateById = <<>>
  /\ timerActive = FALSE
  /\ now = 0
  /\ emitted = <<>>
  /\ evalLog = <<>>
  /\ history = <<>>
  /\ tickInputs = <<>>
  /\ tickStates = <<>>
  /\ m_internalCaptureSurfacesByCharacter = <<>>
  /\ liveResources = {}
  /\ baselineRegions = <<>>
  /\ lifetime = Constructed

\* no static function has been called on its own
NoCall == [function |-> "", args |-> <<>>, returned |-> FALSE, result |-> <<>>]

\* the event loop at time 0, m_pollTimer not started
IdleLoop ==
  [clock |-> 0, timerDue |-> 0, timerRestartedAt |-> 0, restartedByReload |-> FALSE]

\* HTHUMBNAIL m_thumbnail = nullptr
NullThumbnail == 0

\* a default-constructed InternalRegionAlertCaptureSurface, and the window
\* manager's record of the mirrors registered for it
SurfaceConstructed ==
  [object |-> [m_hostWidget |-> FALSE, m_thumbnail |-> NullThumbnail,
               m_registeredSource |-> NullHwnd, alive |-> TRUE],
   dwm |-> [mirrors |-> {}, registrations |-> 0, unregistrations |-> 0,
            peak |-> 0, orphaned |-> {}],
   call |-> [op |-> "constructor", sourceHwnd |-> NullHwnd, ok |-> TRUE, status |-> ""]]

\* the process starts under one system locale; the rules explored with the
\* monitor hold no place marker, so that their keys are the same under
\* every locale, and SpecCalls draws the locale with the rule
Init ==
  /\ MonitorConstructed /\ lastCall = NoCall /\ eventLoop = IdleLoop
  /\ captureSurface = SurfaceConstructed
  /\ locale = EnglishLocale

\* the keys reloadFromConfig keeps: the effective keys of the loaded rules
ActiveRuleKeys(rules) == { effectiveRuleKey(rules[i]) : i \in 1..Len(rules) }

\* reloadFromConfig: the loop that erases the entries of vanished rules
\* the erase loop as it would be if it kept every entry
PruneRuleStates_KeepingAll(states, activeRuleKeys) == states

\* the erase loop as it would be if the entries it keeps started afresh
PruneRuleStates_ResettingKept(states, activeRuleKeys) ==
  [k \in DOMAIN states \cap activeRuleKeys |-> DefaultRuleState]

\* the erase loop as it would be if it spared the entries that hold a baseline
PruneRuleStates_SparingBaselines(states, activeRuleKeys) ==
  [k \in { key \in DOMAIN states :
             \/ key \in activeRuleKeys
             \/ /\ "baselineFrame" \in DOMAIN states[key]
                /\ ~isNull(states[key].baselineFrame) } |->
     states[k]]

\* reloadFromConfig: the erase loop over m_ruleStateById
PruneRuleStates(states, activeRuleKeys) ==
  [k \in DOMAIN states \cap activeRuleKeys |-> states[k]]

\* RegionAlertMonitor::reloadFromConfig with RegionAlertMonitor::updateTimerState
reloadFromConfig(cfg) ==
  /\ lifetime.alive
  /\ m_enabled' = cfg.regionAlertsEnabled
  /\ m_pollIntervalMs' = qBound(100, cfg.regionAlertsPollIntervalMs, 10000)
  /\ m_cooldownMs' = qBound(0, cfg.regionAlertsCooldownMs, 60000)
  /\ m_rules' = cfg.regionAlertRules
  /\ IF cfg.regionAlertsEnabled
     THEN /\ timerActive' = TRUE
          /\ m_ruleStateById' =
               PruneRuleStates(m_ruleStateById, ActiveRuleKeys(cfg.regionAlertRules))
          /\ history' =
               PruneRuleStates(history, ActiveRuleKeys(cfg.regionAlertRules))
     ELSE /\ timerActive' = FALSE
          /\ m_ruleStateById' = <<>>
          /\ history' = <<>>
  /\ LET surfaces == m_internalCaptureSurfacesByCharacter
         kept == IF cfg.regionAlertsEnabled
                 THEN pruneStaleInternalCaptureSurfaces(
                        surfaces, ActiveCharacterKeys(cfg.regionAlertRules))
                 ELSE <<>>
     IN /\ m_internalCaptureSurfacesByCharacter' = kept
        /\ liveResources' =
             liveResources \ ReleasedBy(surfaces, DOMAIN surfaces \ DOMAIN kept)
  /\ UNCHANGED <<m_characterWindows, now, emitted, evalLog, lifetime>>

\* RegionAlertMonitor::setCharacterWindows
setCharacterWindows(characterWindows) ==
  /\ lifetime.alive
  /\ m_characterWindows' = characterWindows
  /\ UNCHANGED <<m_enabled, m_pollIntervalMs, m_cooldownMs, m_rules, m_ruleStateById,
                 timerActive, now, emitted, evalLog, history,
                 m_internalCaptureSurfacesByCharacter, liveResources, lifetime>>

\* RegionAlertMonitor::~RegionAlertMonitor: clearInternalCaptureSurfaces
\* deletes every capture surface, and with the object its members go, the
\* running timer among them.  The other members are read no more and stay
\* in the model as the destructor met them.
Destructor ==
  /\ lifetime.alive
  /\ lifetime' = Destroyed(ReleasedBy(m_internalCaptureSurfacesByCharacter,
                                      DOMAIN m_internalCaptureSurfacesByCharacter))
  /\ m_internalCaptureSurfacesByCharacter' = <<>>
  /\ liveResources' =
       liveResources \ ReleasedBy(m_internalCaptureSurfacesByCharacter,
                                  DOMAIN m_internalCaptureSurfacesByCharacter)
  /\ timerActive' = FALSE
  /\ UNCHANGED <<m_enabled, m_pollIntervalMs, m_cooldownMs, m_rules,
                 m_characterWindows, m_ruleStateById, now, emitted, evalLog,
                 history, tickInputs, tickStates, baselineRegions, lastCall,
                 eventLoop, captureSurface, locale>>

\* pollRules as it would be if it returned early only for an empty rule list
PollSkipped_OnlyWithoutRules(enabled, rules) == rules = <<>>

\* RegionAlertMonitor::pollRules: the condition of the early return
PollSkipped(enabled, rules) == ~enabled \/ rules = <<>>

\* RegionAlertMonitor::pollRules, a call of the slot that reads the clock at
\* tickNow and meets the captures envs
pollRulesCall(tickNow, envs) ==
  /\ lifetime.alive
  /\ now' = tickNow
  /\ IF PollSkipped(m_enabled, m_rules)
     THEN /\ m_ruleStateById' = m_ruleStateById
          /\ emitted' = <<>>
          /\ evalLog' = <<>>
          /\ history' = history
          /\ UNCHANGED <<m_internalCaptureSurfacesByCharacter, liveResources>>
     ELSE LET surfaces == m_internalCaptureSurfacesByCharacter
              pruned == pruneStaleInternalCaptureSurfaces(
                          surfaces, ActiveCharacterKeys(m_rules))
          IN
          \E result \in {EvaluateRules([states |-> m_ruleStateById, emitted |-> <<>>,
                                        log |-> <<>>, surfaces |-> pruned],
                                       1, m_rules, envs, tickNow, m_cooldownMs,
                                       m_characterWindows)} :
             /\ m_internalCaptureSurfacesByCharacter' = result.surfaces
             /\ liveResources' =
                  ResourcesAfterCaptures(
                    liveResources \ ReleasedBy(surfaces, DOMAIN surfaces \ DOMAIN pruned),
                    pruned, result.surfaces)
             /\ m_ruleStateById' = result.states
             /\ emitted' = result.emitted
             /\ evalLog' = result.log
             /\ history' = RecordEvaluations(history, result.log, 1, tickNow,
                                             m_cooldownMs)
  /\ UNCHANGED <<m_enabled, m_pollIntervalMs, m_cooldownMs, m_rules,
                 m_characterWindows, timerActive, lifetime>>

\* RegionAlertMonitor::pollRules, run by a shot of the started m_pollTimer
pollRules(tickNow, envs) == timerActive /\ pollRulesCall(tickNow, envs)

Next ==
  \/ \E cfg \in Configs : reloadFromConfig(cfg) /\ UNCHANGED <<tickInputs, tickStates, baselineRegions, lastCall, eventLoop, captureSurface, locale>>
  \/ \E characterWindows \in WindowMaps :
       setCharacterWindows(characterWindows) /\ UNCHANGED <<tickInputs, tickStates, baselineRegions, lastCall, eventLoop, captureSurface, locale>>
  \/ \E late \in TimerLateness :
       \E envs \in [1..Len(m_rules) -> EnvInputs] :
          /\ now + m_pollIntervalMs + late <= MaxNow
          /\ pollRules(now + m_pollIntervalMs + late, envs)
          /\ UNCHANGED <<tickInputs, tickStates, baselineRegions, lastCall, eventLoop, captureSurface, locale>>
  \/ Destructor

Spec == Init /\ [][Next]_vars

-----------------------------------------------------------------------------
(* Rule lists: several rules per configuration, reloads that permute,      *)
(* remove and re-add rules, and captures that fail for one rule while they  *)
(* succeed for another                                                      *)

\* a disabled rule
RuleOff == Rule(<<"r3">>, <<"C", "y">>, <<"off">>,
                Region(0, 0, 50000, 50000), 10, FALSE)

\* an enabled rule whose character name is blank
RuleBlank == Rule(<<"r4">>, <<" ", " ">>, <<"blank">>,
                  Region(0, 0, 50000, 50000), 10, TRUE)

\* RuleA with another threshold: the same id between other white space,
\* hence the same effective key
RuleA2 == Rule(<<"\t", "r1", "\n">>, <<"A", "l">>, <<"local">>,
               Region(10000, 20000, 30000, 30000), 100, TRUE)

RulesPollIntervalMs == 250

ConfigsRules ==
  { Config(TRUE, RulesPollIntervalMs, 700, <<RuleA, RuleOff, RuleB>>),
    Config(TRUE, RulesPollIntervalMs, 0, <<RuleB, RuleBlank, RuleA2>>),
    Config(TRUE, RulesPollIntervalMs, 700, <<RuleB>>),
    Config(FALSE, RulesPollIntervalMs, 700, <<RuleA, RuleOff, RuleB>>) }

\* what the platform delivers to a rule that is evaluated: nothing to capture
\* from, or a mirrored source window showing one of two rasters
EnvInputsRules ==
  { PlatformEnv(FALSE, Size(0, 0), SurfaceApi(TRUE, TRUE, TRUE, TRUE), NoWindow,
                Thumbnail(FALSE, FullCrop), NoWindow) }
  \cup
  { PlatformEnv(TRUE, Size(40, 40), SurfaceApi(TRUE, TRUE, TRUE, TRUE), ShowingWindow(img),
                Thumbnail(FALSE, FullCrop), NoWindow) :
      img \in { SplitImage(8, 8, 4, c, c) : c \in RawColours } }

\* what is delivered for a rule the loop skips: no capture is attempted
NoEnv ==
  PlatformEnv(FALSE, Size(0, 0), SurfaceApi(FALSE, FALSE, FALSE, FALSE), NoWindow,
              Thumbnail(FALSE, FullCrop), NoWindow)

\* pollRules: the rules the second loop does not skip
IsEvaluated(rule) == rule.enabled /\ trimmed(rule.characterName) # <<>>

TickInputsFor(rules, inputs) ==
  { envs \in [1..Len(rules) -> inputs \cup {NoEnv}] :
      \A i \in 1..Len(rules) : (envs[i] = NoEnv) <=> ~IsEvaluated(rules[i]) }

NextRules ==
  \/ \E cfg \in ConfigsRules :
       reloadFromConfig(cfg) /\ UNCHANGED <<tickInputs, tickStates, baselineRegions, lastCall, eventLoop, captureSurface, locale>>
  \/ \E characterWindows \in WindowMaps :
       setCharacterWindows(characterWindows) /\ UNCHANGED <<tickInputs, tickStates, baselineRegions, lastCall, eventLoop, captureSurface, locale>>
  \/ \E envs \in TickInputsFor(m_rules, EnvInputsRules) :
       /\ now + m_pollIntervalMs <= MaxNow
       /\ pollRules(now + m_pollIntervalMs, envs)
       /\ tickInputs' = envs
       /\ UNCHANGED <<tickStates, baselineRegions, lastCall, eventLoop, captureSurface, locale>>
  \/ Destructor

SpecRules == Init /\ [][NextRules]_vars

-----------------------------------------------------------------------------
(* Captures: one rule, and a platform whose windows, surfaces and thumbnail *)
(* widgets fail in the ways the capture code distinguishes                  *)

CapturePollIntervalMs == 250

ConfigsCapture == { Config(TRUE, CapturePollIntervalMs, 700, <<RuleA>>) }

BlackImage(w, h) == SplitImage(w, h, 0, <<0, 0, 0>>, <<0, 0, 0>>)

HostImage == SplitImage(8, 8, 4, <<10, 10, 10>>, <<30, 30, 30>>)

ThumbnailImage == SplitImage(40, 40, 10, <<10, 10, 10>>, <<30, 30, 30>>)

\* the host window of a capture surface: readable by every sub-method; black
\* through its own device context but readable through the screen; black
\* throughout; failing BitBlt; showing a frame too small to use
HostWindows ==
  { ShowingWindow(HostImage),
    Window(TRUE, Size(8, 8), TRUE, Grab("", BlackImage(8, 8)), Grab("", HostImage),
           Grab("", HostImage)),
    ShowingWindow(BlackImage(8, 8)),
    Window(TRUE, Size(8, 8), TRUE, Grab("BitBlt(clientDC):api_fail", NullImage),
           Grab("BitBlt(screenDC_clientRect):api_fail", NullImage),
           Grab("", HostImage)),
    ShowingWindow(SplitImage(4, 4, 2, <<10, 10, 10>>, <<30, 30, 30>>)) }

\* crops of the thumbnail widget: everything; a band that meets RuleA's region
\* only before it is trimmed to the aspect ratio of the thumbnail; a band
\* whose trimmed part meets the region in a sliver; a band whose trimmed part
\* meets the region because the sum 0.2 + 0.1 lies above 0.3
ThumbnailCrops ==
  { FullCrop, Region(0, 20000, 100000, 10000), Region(0, 0, 100000, 25000),
    Region(0, 20000, 90000, 10000) }

ThumbnailWindows == { ShowingWindow(ThumbnailImage), ShowingWindow(BlackImage(40, 40)) }

EnvInputsCapture ==
  { PlatformEnv(TRUE, Size(40, 40), SurfaceApi(TRUE, TRUE, TRUE, TRUE), host,
                Thumbnail(FALSE, FullCrop), NoWindow) : host \in HostWindows }
  \cup
  { PlatformEnv(TRUE, Size(40, 40), api, host, Thumbnail(TRUE, FullCrop),
                ShowingWindow(ThumbnailImage)) :
      api \in { SurfaceApi(TRUE, TRUE, TRUE, TRUE), SurfaceApi(TRUE, TRUE, FALSE, TRUE),
                SurfaceApi(TRUE, FALSE, TRUE, TRUE) },
      host \in { ShowingWindow(HostImage), ShowingWindow(BlackImage(8, 8)) } }
  \cup
  { PlatformEnv(TRUE, Size(10, 10), SurfaceApi(TRUE, TRUE, TRUE, TRUE),
                ShowingWindow(HostImage), Thumbnail(FALSE, FullCrop), NoWindow) }
  \cup
  { PlatformEnv(FALSE, Size(0, 0), SurfaceApi(TRUE, TRUE, TRUE, TRUE), NoWindow,
                Thumbnail(TRUE, crop), w) :
      crop \in ThumbnailCrops, w \in ThumbnailWindows }
  \cup
  { PlatformEnv(FALSE, Size(0, 0), SurfaceApi(TRUE, TRUE, TRUE, TRUE), NoWindow,
                Thumbnail(FALSE, FullCrop), NoWindow) }
  \cup
  { ClosingSource(PlatformEnv(TRUE, Size(40, 40), SurfaceApi(TRUE, TRUE, TRUE, TRUE),
                              ShowingWindow(HostImage), Thumbnail(FALSE, FullCrop),
                              NoWindow)) }
  \cup
  { LateClientSize(PlatformEnv(TRUE, Size(40, 40), SurfaceApi(TRUE, TRUE, TRUE, TRUE),
                               host, Thumbnail(TRUE, FullCrop),
                               ShowingWindow(ThumbnailImage)),
                   Size(40, 40)) :
      host \in { ShowingWindow(HostImage), ShowingWindow(BlackImage(8, 8)) } }

NextCapture ==
  \/ \E cfg \in ConfigsCapture :
       reloadFromConfig(cfg) /\ UNCHANGED <<tickInputs, tickStates, baselineRegions, lastCall, eventLoop, captureSurface, locale>>
  \/ \E characterWindows \in WindowMaps :
       setCharacterWindows(characterWindows) /\ UNCHANGED <<tickInputs, tickStates, baselineRegions, lastCall, eventLoop, captureSurface, locale>>
  \/ \E envs \in TickInputsFor(m_rules, EnvInputsCapture) :
       /\ now + m_pollIntervalMs <= MaxNow
       /\ pollRules(now + m_pollIntervalMs, envs)
       /\ tickInputs' = envs
       /\ tickStates' = m_ruleStateById
       /\ UNCHANGED <<baselineRegions, lastCall, eventLoop, captureSurface, locale>>
  \/ Destructor

SpecCapture == Init /\ [][NextCapture]_vars

------------------------------------------------------------------------------
(* SpecReentrant: ticks during which a handler of regionAlertTriggered,     *)
(* connected directly, calls back into the monitor.  The emit in pollRules  *)
(* runs the handler to its end before the statement after it; pollRules     *)
(* has read nothing into locals but now, so every member it reads after    *)
(* the emit is the one the handler left.                                   *)

ReentrantPollIntervalMs == 250

\* RuleB with another threshold: same character, label and region, same key
RuleB2 == Rule(<<>>, <<"B", "o", " ">>, <<"dscan">>,
               Region(50000, 50000, 25000, 25000), 1, TRUE)

\* the configurations loaded between ticks name the same rules in the same
\* order, so that none of these reloads erases an entry
ConfigsReentrant ==
  { Config(TRUE, ReentrantPollIntervalMs, 700, <<RuleA, RuleB>>),
    Config(TRUE, ReentrantPollIntervalMs, 0, <<RuleA2, RuleB2>>) }

\* the configurations a handler may load besides: one that drops RuleA, and
\* one that disables region alerts
ConfigsErasing ==
  { Config(TRUE, ReentrantPollIntervalMs, 700, <<RuleOff, RuleB>>),
    Config(FALSE, ReentrantPollIntervalMs, 700, <<RuleA, RuleB>>) }

\* the target maps a handler may set: the known windows, or none at all
WindowMapsReentrant == WindowMaps \cup { <<>> }

\* what becomes of the range-for over m_rules once a handler's reload has
\* assigned m_rules: its iterators point into the storage of the old list,
\* which the assignment released.  The loop may go on reading the old
\* elements, may read the elements of the new list in reused storage, or
\* may fault and evaluate no further rule.
LoopOutcomes == { "old_elements", "new_elements", "fault" }

\* what becomes of RuleState &state = m_ruleStateById[ruleKey] once a
\* handler's reload has erased entries of the map: the three assignments
\* after the emit go through a reference the erase may have invalidated.
\* They land in the entry, if the map still holds it, or they go to released
\* memory and the map stays as the handler left it.  (A write that faults
\* ends the tick as the loop outcome "fault" does.)
ReferenceOutcomes == { "entry_written", "write_lost" }

NoHandler ==
  [op |-> "none", characterWindows |-> <<>>, cfg |-> Config(TRUE, 0, 0, <<>>),
   loop |-> "old_elements", reference |-> "entry_written"]

\* what the slot connected to regionAlertTriggered does
Handlers ==
  { NoHandler }
  \cup { [NoHandler EXCEPT !.op = "setCharacterWindows", !.characterWindows = w] :
           w \in WindowMapsReentrant }
  \cup { [NoHandler EXCEPT !.op = "reloadFromConfig", !.cfg = c, !.loop = o] :
           c \in ConfigsReentrant, o \in LoopOutcomes }
  \cup { [NoHandler EXCEPT !.op = "reloadFromConfig", !.cfg = c, !.loop = o,
                           !.reference = r] :
           c \in ConfigsErasing, o \in LoopOutcomes, r \in ReferenceOutcomes }

\* the members pollRules reads while it iterates, the elements its loop
\* reads, and the surfaces and resources as they were when a handler last
\* returned (at the start of the tick, before any has run)
TickContext(rules, cooldownMs, windows, enabled, pollIntervalMs, active, surfaces, live) ==
  [m_rules |-> rules, iterated |-> rules, m_cooldownMs |-> cooldownMs,
   m_characterWindows |-> windows, m_enabled |-> enabled,
   m_pollIntervalMs |-> pollIntervalMs, faulted |-> FALSE,
   timerActive |-> active, surfaces |-> surfaces, liveResources |-> live]

\* the RuleState of a rule while its emit runs: the streak is counted before
\* the emit, the deadline and the baseline are assigned after it
AtEmit(before, evaluated) ==
  [evaluated EXCEPT
     !.consecutiveFramesAboveThreshold = before.consecutiveFramesAboveThreshold + 1,
     !.cooldownUntilMs = before.cooldownUntilMs,
     !.baselineFrame = before.baselineFrame]

\* the elements a range-for started on the list old reads once the list
\* new sits in its storage: the loop keeps the end it started with
Overlaid(old, new) ==
  [i \in 1..Len(old) |-> IF i <= Len(new) THEN new[i] ELSE old[i]]

\* reloadFromConfig called by the handler: the entries of the rule-state map
\* it leaves, given the map the emit found.  updateTimerState clears the map
\* when region alerts are disabled.
ReloadedStates(states, cfg) ==
  IF cfg.regionAlertsEnabled
  THEN PruneRuleStates(states, ActiveRuleKeys(cfg.regionAlertRules))
  ELSE <<>>

\* reloadFromConfig called by the handler: the capture surfaces it leaves.
\* updateTimerState destroys them all when region alerts are disabled.
ReloadedSurfaces(surfaces, cfg) ==
  IF cfg.regionAlertsEnabled
  THEN pruneStaleInternalCaptureSurfaces(surfaces,
                                         ActiveCharacterKeys(cfg.regionAlertRules))
  ELSE <<>>

\* whether the assignments after the emit land in the entry under ruleKey:
\* they do when the reload erased nothing; they cannot when it erased that
\* entry; otherwise both outcomes are open
ReferenceAfter(before, reloaded, ruleKey, reference) ==
  IF DOMAIN reloaded = DOMAIN before THEN "entry_written"
  ELSE IF ruleKey \notin DOMAIN reloaded THEN "write_lost"
  ELSE reference

\* the handler runs inside the emit of the rule under ruleKey: acc is the
\* tick before the rule, after what the evaluation of the rule leaves once
\* its last statement has run, ctx the members before the emit
AfterHandler(acc, after, ctx, ruleKey, tickNow, handler) ==
  IF handler.op = "setCharacterWindows"
  THEN [acc |-> after,
        ctx |-> [ctx EXCEPT !.m_characterWindows = handler.characterWindows]]
  ELSE IF handler.op = "reloadFromConfig"
  THEN LET cfg == handler.cfg
           cooldownMs == qBound(0, cfg.regionAlertsCooldownMs, 60000)
           atEmit == [after.states EXCEPT
                        ![ruleKey] = AtEmit(acc.states[ruleKey], @)]
           reloaded == ReloadedStates(atEmit, cfg)
           kept == ReloadedSurfaces(after.surfaces, cfg)
           reference == ReferenceAfter(atEmit, reloaded, ruleKey, handler.reference)
       IN [acc |-> [after EXCEPT
                      \* state.cooldownUntilMs = now + m_cooldownMs, with the
                      \* streak and the baseline, after the emit
                      !.states = IF reference = "entry_written"
                                 THEN [reloaded EXCEPT
                                         ![ruleKey] =
                                           [after.states[ruleKey] EXCEPT
                                              !.cooldownUntilMs = tickNow + cooldownMs]]
                                 ELSE reloaded,
                      !.surfaces = kept],
           ctx |-> [ctx EXCEPT
                      !.m_enabled = cfg.regionAlertsEnabled,
                      !.m_pollIntervalMs = qBound(100, cfg.regionAlertsPollIntervalMs,
                                                  10000),
                      !.m_cooldownMs = cooldownMs,
                      !.m_rules = cfg.regionAlertRules,
                      !.iterated = IF handler.loop = "new_elements"
                                   THEN Overlaid(@, cfg.regionAlertRules) ELSE @,
                      !.faulted = handler.loop = "fault",
                      \* updateTimerState
                      !.timerActive = cfg.regionAlertsEnabled,
                      !.liveResources =
                         ResourcesAfterCaptures(ctx.liveResources, ctx.surfaces,
                                                after.surfaces)
                           \ ReleasedBy(after.surfaces,
                                        DOMAIN after.surfaces \ DOMAIN kept),
                      !.surfaces = kept]]
  ELSE [acc |-> after, ctx |-> ctx]

\* what the loop goes on with after the rule under ruleKey: the handler has
\* run if the evaluation emitted
ResumedAfter(acc, after, ctx, ruleKey, tickNow, handler) ==
  IF Len(after.emitted) > Len(acc.emitted)
  THEN AfterHandler(acc, after, ctx, ruleKey, tickNow, handler)
  ELSE [acc |-> after, ctx |-> ctx]

\* the second loop of pollRules with the handler run at every emit.  The
\* loop does not read m_enabled again: after a handler's disabling reload it
\* evaluates the rules that remain, and their entries and surfaces are
\* created anew.
RECURSIVE EvaluateRulesReentrant(_, _, _, _, _)
EvaluateRulesReentrant(resumed, i, envs, tickNow, handler) ==
  IF i > Len(resumed.ctx.iterated) \/ resumed.ctx.faulted THEN resumed
  ELSE EvaluateRulesReentrant(
         ResumedAfter(resumed.acc,
                      EvaluateRule(resumed.acc, i, resumed.ctx.iterated[i], envs[i],
                                   tickNow, resumed.ctx.m_cooldownMs,
                                   resumed.ctx.m_characterWindows),
                      resumed.ctx, effectiveRuleKey(resumed.ctx.iterated[i]),
                      tickNow, handler),
         i + 1, envs, tickNow, handler)

\* RegionAlertMonitor::pollRules with a slot connected to regionAlertTriggered
pollRulesReentrant(tickNow, envs, handler) ==
  /\ lifetime.alive
  /\ timerActive
  /\ m_enabled /\ m_rules # <<>>
  /\ now' = tickNow
  /\ LET surfaces == m_internalCaptureSurfacesByCharacter
         pruned == pruneStaleInternalCaptureSurfaces(
                     surfaces, ActiveCharacterKeys(m_rules))
     IN
     \E result \in {EvaluateRulesReentrant(
                      [acc |-> [states |-> m_ruleStateById, emitted |-> <<>>,
                                log |-> <<>>, surfaces |-> pruned],
                       ctx |-> TickContext(m_rules, m_cooldownMs, m_characterWindows,
                                           m_enabled, m_pollIntervalMs, timerActive,
                                           pruned,
                                           liveResources
                                             \ ReleasedBy(surfaces,
                                                          DOMAIN surfaces \ DOMAIN pruned))],
                      1, envs, tickNow, handler)} :
        /\ m_internalCaptureSurfacesByCharacter' = result.acc.surfaces
        /\ liveResources' =
             ResourcesAfterCaptures(result.ctx.liveResources, result.ctx.surfaces,
                                    result.acc.surfaces)
        /\ m_ruleStateById' = result.acc.states
        /\ emitted' = result.acc.emitted
        /\ evalLog' = result.acc.log
        /\ history' = PruneRuleStates(
                        RecordEvaluations(history, result.acc.log, 1, tickNow,
                                          m_cooldownMs),
                        DOMAIN result.acc.states)
        /\ m_enabled' = result.ctx.m_enabled
        /\ m_pollIntervalMs' = result.ctx.m_pollIntervalMs
        /\ m_cooldownMs' = result.ctx.m_cooldownMs
        /\ m_rules' = result.ctx.m_rules
        /\ m_characterWindows' = result.ctx.m_characterWindows
        /\ timerActive' = result.ctx.timerActive
  /\ UNCHANGED lifetime

\* the slots that make a tick differ: a slot runs only if the tick emits,
\* and the first emit of a tick is the one the tick has with no slot connected
HandlersRun(tickNow, envs) ==
  IF ~m_enabled \/ m_rules = <<>> THEN { NoHandler }
  ELSE IF
     EvaluateRules([states |-> m_ruleStateById, emitted |-> <<>>, log |-> <<>>,
                    surfaces |-> pruneStaleInternalCaptureSurfaces(
                                   m_internalCaptureSurfacesByCharacter,
                                   ActiveCharacterKeys(m_rules))],
                   1, m_rules, envs, tickNow, m_cooldownMs,
                   m_characterWindows).emitted = <<>>
  THEN { NoHandler }
  ELSE Handlers

NextReentrant ==
  \/ \E cfg \in ConfigsReentrant :
       reloadFromConfig(cfg) /\ UNCHANGED <<tickInputs, tickStates, baselineRegions, lastCall, eventLoop, captureSurface, locale>>
  \/ \E characterWindows \in WindowMaps :
       setCharacterWindows(characterWindows) /\ UNCHANGED <<tickInputs, tickStates, baselineRegions, lastCall, eventLoop, captureSurface, locale>>
  \/ \E envs \in TickInputsFor(m_rules, EnvInputsRules) :
       /\ now + m_pollIntervalMs <= MaxNow
       /\ lifetime.alive /\ timerActive
       /\ \E handler \in HandlersRun(now + m_pollIntervalMs, envs) :
            pollRulesReentrant(now + m_pollIntervalMs, envs, handler)
       /\ tickInputs' = envs
       /\ tickStates' = m_ruleStateById
       /\ UNCHANGED <<baselineRegions, lastCall, eventLoop, captureSurface, locale>>
  \/ Destructor

SpecReentrant == Init /\ [][NextReentrant]_vars

------------------------------------------------------------------------------
(* SpecRegions: reloads that redefine the region of a rule, for a rule     *)
(* keyed by its id and for a rule keyed by character, label and region.    *)

RegionsPollIntervalMs == 250

\* RuleA with its region moved: same id, hence same effective key
RuleAMoved == Rule(<<" ", "r1">>, <<"A", "l">>, <<"local">>,
                   Region(50000, 20000, 30000, 30000), 50, TRUE)

\* RuleB with its region moved: the region is part of its effective key
RuleBMoved == Rule(<<>>, <<"B", "o", " ">>, <<"dscan">>,
                   Region(10000, 50000, 25000, 25000), 150, TRUE)

ConfigsRegions ==
  { Config(TRUE, RegionsPollIntervalMs, 700, <<rule>>) :
      rule \in { RuleA, RuleAMoved, RuleB, RuleBMoved } }

\* the regions the stored baselines were captured from, after a tick: a
\* baseline that is the frame of this tick is of the region the tick
\* evaluated, any other baseline is the one stored before
BaselineRegionsAfter(regions, log, states, rules) ==
  [k \in { key \in DOMAIN states : ~isNull(states[key].baselineFrame) } |->
     IF \E j \in 1..Len(log) :
          log[j].ruleKey = k /\ log[j].frame = states[k].baselineFrame
     THEN LET j == CHOOSE n \in 1..Len(log) :
                     log[n].ruleKey = k /\ log[n].frame = states[k].baselineFrame
          IN rules[log[j].index].regionNormalized
     ELSE regions[k]]

NextRegions ==
  \/ \E cfg \in ConfigsRegions :
       /\ reloadFromConfig(cfg)
       /\ baselineRegions' =
            PruneRuleStates(baselineRegions, ActiveRuleKeys(cfg.regionAlertRules))
       /\ UNCHANGED <<tickInputs, tickStates, lastCall, eventLoop, captureSurface, locale>>
  \/ \E characterWindows \in WindowMaps :
       setCharacterWindows(characterWindows)
         /\ UNCHANGED <<tickInputs, tickStates, baselineRegions, lastCall, eventLoop, captureSurface, locale>>
  \/ \E envs \in TickInputsFor(m_rules, EnvInputsRules) :
       /\ now + m_pollIntervalMs <= MaxNow
       /\ pollRules(now + m_pollIntervalMs, envs)
       /\ tickInputs' = envs
       /\ tickStates' = m_ruleStateById
       /\ baselineRegions' =
            BaselineRegionsAfter(baselineRegions, evalLog', m_ruleStateById', m_rules)
       /\ UNCHANGED <<lastCall, eventLoop, captureSurface, locale>>
  \/ Destructor

SpecRegions == Init /\ [][NextRegions]_vars

------------------------------------------------------------------------------
(* SpecSkipped: a rule list whose first rule is switched off, or loses its *)
(* character name, by a reload, while the rule after it stays in force.    *)

SkippedPollIntervalMs == 250

\* RuleA switched off
RuleAOff == Rule(<<" ", "r1">>, <<"A", "l">>, <<"local">>,
                 Region(10000, 20000, 30000, 30000), 50, FALSE)

\* RuleA with a character name of blanks
RuleANameless == Rule(<<" ", "r1">>, <<" ", " ">>, <<"local">>,
                      Region(10000, 20000, 30000, 30000), 50, TRUE)

ConfigsSkipped ==
  { Config(TRUE, SkippedPollIntervalMs, 0, <<first, RuleB2>>) :
      first \in { RuleA, RuleAOff, RuleANameless } }

NextSkipped ==
  \/ \E cfg \in ConfigsSkipped :
       reloadFromConfig(cfg) /\ UNCHANGED <<tickInputs, tickStates, baselineRegions, lastCall, eventLoop, captureSurface, locale>>
  \/ \E characterWindows \in WindowMaps :
       setCharacterWindows(characterWindows)
         /\ UNCHANGED <<tickInputs, tickStates, baselineRegions, lastCall, eventLoop, captureSurface, locale>>
  \/ \E envs \in TickInputsFor(m_rules, EnvInputsRules) :
       /\ now + m_pollIntervalMs <= MaxNow
       /\ pollRules(now + m_pollIntervalMs, envs)
       /\ tickInputs' = envs
       /\ tickStates' = m_ruleStateById
       /\ UNCHANGED <<baselineRegions, lastCall, eventLoop, captureSurface, locale>>
  \/ Destructor

SpecSkipped == Init /\ [][NextSkipped]_vars

------------------------------------------------------------------------------
(* SpecThresholds: one rule whose configured threshold is changed by       *)
(* reloads, to values below, inside and above the range 1..100.            *)

ThresholdsPollIntervalMs == 250

ConfiguredThresholds == { -20, 0, 1, 60, 100, 150 }

RuleWithThreshold(thresholdPercent) ==
  Rule(<<"t1">>, <<"A", "l">>, <<"local">>,
       Region(10000, 20000, 30000, 30000), thresholdPercent, TRUE)

ConfigsThresholds ==
  { Config(TRUE, ThresholdsPollIntervalMs, 0, <<RuleWithThreshold(t)>>) :
      t \in ConfiguredThresholds }

\* a failing window, and windows showing frames of which none, half or all
\* of the pixels differ from one another
EnvInputsThresholds ==
  { PlatformEnv(FALSE, Size(0, 0), SurfaceApi(TRUE, TRUE, TRUE, TRUE), NoWindow,
                Thumbnail(FALSE, FullCrop), NoWindow) }
  \cup
  { PlatformEnv(TRUE, Size(40, 40), SurfaceApi(TRUE, TRUE, TRUE, TRUE), ShowingWindow(img),
                Thumbnail(FALSE, FullCrop), NoWindow) :
      img \in { SplitImage(8, 8, 4, c, d) : c, d \in RawColours } }

NextThresholds ==
  \/ \E cfg \in ConfigsThresholds :
       reloadFromConfig(cfg) /\ UNCHANGED <<tickInputs, tickStates, baselineRegions, lastCall, eventLoop, captureSurface, locale>>
  \/ \E characterWindows \in WindowMaps :
       setCharacterWindows(characterWindows)
         /\ UNCHANGED <<tickInputs, tickStates, baselineRegions, lastCall, eventLoop, captureSurface, locale>>
  \/ \E envs \in TickInputsFor(m_rules, EnvInputsThresholds) :
       /\ now + m_pollIntervalMs <= MaxNow
       /\ pollRules(now + m_pollIntervalMs, envs)
       /\ tickStates' = m_ruleStateById
       /\ UNCHANGED <<tickInputs, baselineRegions, lastCall, eventLoop, captureSurface, locale>>
  \/ Destructor

SpecThresholds == Init /\ [][NextThresholds]_vars

------------------------------------------------------------------------------
(* SpecCalls: the static functions of the monitor on their own. Each       *)
(* behaviour starts with the arguments of one call and applies the         *)
(* function to them; a call of effectiveRuleKey starts with the locale     *)
(* QLocale() stands for as well.  A static function needs no object, so    *)
(* the destructor is no step here.                                         *)

MaxFrameSide == 2

\* grey levels 19, 20 and 1 apart, around kPixelDeltaThreshold
GrayLevels == { 10, 29, 30 }

\* QImage in Format_Grayscale8, of one row or one column
FramesOf(w, h) ==
  { ImageOfPixels(w, h, p) : p \in [1..(w * h) -> GrayLevels] }

DiffFrames ==
  {NullImage} \cup
  UNION { FramesOf(s[1], s[2]) :
            s \in { t \in (1..MaxFrameSide) \X (1..MaxFrameSide) :
                       t[1] = 1 \/ t[2] = 1 } }

\* rule regions in units of 1e-5: inside, across and outside the unit
\* square, of positive, zero and negative extent; 0.05 - 1.0 + 1.0 lies
\* above 0.05 in doubles
RegionOrigins == { -50000, 0, 5000, 33333, 99999, 150000 }

RegionExtents == { -200000, -100000, -33333, 0, 1, 25000, 200000 }

CallRegions ==
  { Region(x, y, w, h) : x, y \in RegionOrigins, w, h \in RegionExtents }

SourceSides == { -1, 0, 1, 3, 20, 40 }

SourceSizes == { Size(w, h) : w, h \in SourceSides }

\* the QRectF that starts at the lower of the left and right, and of the
\* top and bottom, edges of the rectangle and has its extents without sign
WithEdgesSwapped(rect) ==
  LET edges == RectFEdges(rect)
  IN QRectF(IF DLess(edges.right, edges.left) THEN edges.right ELSE edges.left,
            IF DLess(edges.bottom, edges.top) THEN edges.bottom ELSE edges.top,
            IF DIsNegative(rect.width) THEN DNeg(rect.width) ELSE rect.width,
            IF DIsNegative(rect.height) THEN DNeg(rect.height) ELSE rect.height)

\* names and labels with place markers, plain and with "L", of the numbers
\* the pattern holds and of others
KeyNames == { <<"B", "o", " ">>, <<"%", "L", "3">>, <<"%", "1", "%", "L", "4">> }

KeyLabels == { <<"dscan">>, <<"%", "L", "3", "%", "6">>, <<"%", "2">> }

\* regions of 0.5 and 0.25, and of 1234.5, -1234.5, 12345 and 0.25: numbers
\* that a locale groups
KeyRegions ==
  { Region(50000, 50000, 25000, 25000),
    Region(123450000, -123450000, 1234500000, 25000) }

KeyRules ==
  { Rule(id, characterName, label, region, 50, TRUE) :
      id \in { <<>>, <<" ", "r1">> }, characterName \in KeyNames,
      label \in KeyLabels, region \in KeyRegions }

Call(function, args) ==
  [function |-> function, args |-> args, returned |-> FALSE, result |-> <<>>]

InitCalls ==
  /\ MonitorConstructed
  /\ eventLoop = IdleLoop
  /\ captureSurface = SurfaceConstructed
  /\ \/ /\ locale = EnglishLocale
        /\ lastCall \in
             { Call("changedPercent", <<previous, current>>) :
                 previous, current \in DiffFrames }
             \cup
             { Call("regionToPixels", <<region, sourceSize>>) :
                 region \in CallRegions, sourceSize \in SourceSizes }
     \/ /\ locale \in SystemLocales
        /\ lastCall \in { Call("effectiveRuleKey", <<rule>>) : rule \in KeyRules }

CallChangedPercent ==
  /\ lastCall.function = "changedPercent" /\ ~lastCall.returned
  /\ lastCall' = [lastCall EXCEPT
                    !.returned = TRUE,
                    !.result = changedPercent(lastCall.args[1], lastCall.args[2])]

CallRegionToPixels ==
  /\ lastCall.function = "regionToPixels" /\ ~lastCall.returned
  /\ lastCall' = [lastCall EXCEPT
                    !.returned = TRUE,
                    !.result = regionToPixels(lastCall.args[1], lastCall.args[2])]

CallEffectiveRuleKey ==
  /\ lastCall.function = "effectiveRuleKey" /\ ~lastCall.returned
  /\ lastCall' = [lastCall EXCEPT
                    !.returned = TRUE,
                    !.result = effectiveRuleKey(lastCall.args[1])]

NextCalls ==
  \/ CallChangedPercent /\ UNCHANGED <<monitorVars, eventLoop, captureSurface, locale>>
  \/ CallRegionToPixels /\ UNCHANGED <<monitorVars, eventLoop, captureSurface, locale>>
  \/ CallEffectiveRuleKey /\ UNCHANGED <<monitorVars, eventLoop, captureSurface, locale>>

SpecCalls == InitCalls /\ [][NextCalls]_vars

------------------------------------------------------------------------------
(* SpecTimer: the monitor under an event loop in which time passes between *)
(* the handlers: reloads come at any time, the tick comes when the         *)
(* repeating poll timer times out.                                         *)

TimeStepMs == 50

ConfigsTimer ==
  { Config(TRUE, 50, -5, <<RuleA>>),
    Config(TRUE, 150, 700, <<RuleA>>),
    Config(TRUE, 20000, 90000, <<RuleA>>),
    Config(FALSE, 150, 700, <<RuleA>>) }

\* a window that cannot be captured, and a window showing one steady frame
EnvInputsTimer ==
  { PlatformEnv(FALSE, Size(0, 0), SurfaceApi(TRUE, TRUE, TRUE, TRUE), NoWindow,
                Thumbnail(FALSE, FullCrop), NoWindow),
    PlatformEnv(TRUE, Size(40, 40), SurfaceApi(TRUE, TRUE, TRUE, TRUE),
                ShowingWindow(SplitImage(8, 8, 4, <<10, 10, 10>>, <<10, 10, 10>>)),
                Thumbnail(FALSE, FullCrop), NoWindow) }

\* QTimer::start(msec) as it would be if a running timer kept its deadline
StartedTimer_KeepingDeadline(loop, running, msec, byReload) ==
  IF running THEN loop
  ELSE [loop EXCEPT !.timerDue = loop.clock + msec,
                    !.timerRestartedAt = loop.clock,
                    !.restartedByReload = byReload]

\* QTimer::start(msec): the timer, running or not, times out msec from now
StartedTimer(loop, running, msec, byReload) ==
  [loop EXCEPT !.timerDue = loop.clock + msec,
               !.timerRestartedAt = loop.clock,
               !.restartedByReload = byReload]

\* reloadFromConfig and the updateTimerState it ends with
ReloadAtClock(cfg) ==
  /\ reloadFromConfig(cfg)
  /\ eventLoop' =
       IF cfg.regionAlertsEnabled
       THEN StartedTimer(eventLoop, timerActive,
                         qBound(100, cfg.regionAlertsPollIntervalMs, 10000), TRUE)
       ELSE eventLoop
  /\ UNCHANGED <<tickInputs, tickStates, baselineRegions, lastCall, captureSurface, locale>>

\* time passes, up to the next timeout of a running timer
TimePasses ==
  /\ eventLoop.clock + TimeStepMs <= MaxNow
  /\ timerActive => eventLoop.clock + TimeStepMs <= eventLoop.timerDue
  /\ eventLoop' = [eventLoop EXCEPT !.clock = @ + TimeStepMs]
  /\ UNCHANGED <<monitorVars, lastCall, captureSurface, locale>>

\* the timeout of the repeating timer: pollRules, and the next period begins
TimerTimeout ==
  /\ timerActive /\ eventLoop.clock = eventLoop.timerDue
  /\ \E envs \in TickInputsFor(m_rules, EnvInputsTimer) :
       pollRules(eventLoop.clock, envs)
  /\ eventLoop' = StartedTimer(eventLoop, timerActive, m_pollIntervalMs, FALSE)
  /\ UNCHANGED <<tickInputs, tickStates, baselineRegions, lastCall, captureSurface, locale>>

NextTimer ==
  \/ \E cfg \in ConfigsTimer : ReloadAtClock(cfg)
  \/ \E characterWindows \in WindowMaps :
       setCharacterWindows(characterWindows)
         /\ UNCHANGED <<tickInputs, tickStates, baselineRegions, lastCall, eventLoop, captureSurface, locale>>
  \/ TimePasses
  \/ TimerTimeout
  \/ Destructor

SpecTimer == Init /\ [][NextTimer]_vars

-----------------------------------------------------------------------------
(* Rule lists in which two enabled rules have one effective key: the same  *)
(* id, or no id and the same character, label and region                   *)

ConfigsSameKey ==
  { Config(TRUE, RulesPollIntervalMs, 700, <<RuleA, RuleA2>>),
    Config(TRUE, RulesPollIntervalMs, 700, <<RuleB, RuleB2>>),
    Config(TRUE, RulesPollIntervalMs, 700, <<RuleA, RuleB>>) }

NextSameKey ==
  \/ \E cfg \in ConfigsSameKey :
       reloadFromConfig(cfg) /\ UNCHANGED <<tickInputs, tickStates, baselineRegions, lastCall, eventLoop, captureSurface, locale>>
  \/ \E characterWindows \in WindowMaps :
       setCharacterWindows(characterWindows)
         /\ UNCHANGED <<tickInputs, tickStates, baselineRegions, lastCall, eventLoop, captureSurface, locale>>
  \/ \E envs \in TickInputsFor(m_rules, EnvInputsRules) :
       /\ now + m_pollIntervalMs <= MaxNow
       /\ pollRules(now + m_pollIntervalMs, envs)
       /\ tickInputs' = envs
       /\ UNCHANGED <<tickStates, baselineRegions, lastCall, eventLoop, captureSurface, locale>>
  \/ Destructor

SpecSameKey == Init /\ [][NextSameKey]_vars

-----------------------------------------------------------------------------
(* Monitoring switched off and on: configurations that disable the monitor *)
(* or carry no rule, and the slot pollRules invoked while the timer is     *)
(* stopped                                                                 *)

ConfigsDisabled ==
  { Config(enabled, RulesPollIntervalMs, 700, rules) :
      enabled \in BOOLEAN, rules \in { <<>>, <<RuleA>> } }

NextDisabled ==
  \/ \E cfg \in ConfigsDisabled :
       reloadFromConfig(cfg) /\ UNCHANGED <<tickInputs, tickStates, baselineRegions, lastCall, eventLoop, captureSurface, locale>>
  \/ \E characterWindows \in WindowMaps :
       setCharacterWindows(characterWindows)
         /\ UNCHANGED <<tickInputs, tickStates, baselineRegions, lastCall, eventLoop, captureSurface, locale>>
  \/ \E envs \in TickInputsFor(m_rules, EnvInputsRules) :
       /\ now + m_pollIntervalMs <= MaxNow
       /\ pollRules(now + m_pollIntervalMs, envs)
       /\ tickInputs' = envs
       /\ UNCHANGED <<tickStates, baselineRegions, lastCall, eventLoop, captureSurface, locale>>
  \/ \E envs \in TickInputsFor(m_rules, EnvInputsRules) :
       /\ ~timerActive
       /\ now + m_pollIntervalMs <= MaxNow
       /\ pollRulesCall(now + m_pollIntervalMs, envs)
       /\ tickInputs' = envs
       /\ UNCHANGED <<tickStates, baselineRegions, lastCall, eventLoop, captureSurface, locale>>
  \/ Destructor

SpecDisabled == Init /\ [][NextDisabled]_vars

-----------------------------------------------------------------------------
(* One capture surface and the window manager: the members m_hostWidget,   *)
(* m_thumbnail and m_registeredSource, the mirrors the window manager has  *)
(* registered, and the calls that register and unregister them             *)

\* the registrations explored in the life of the surfaces
MaxRegistrations == 4

\* a successful DwmRegisterThumbnail: the window manager hands out a new
\* handle and records the mirror
DwmRegisterThumbnail(dwm, sourceHwnd) ==
  [dwm EXCEPT
     !.mirrors = @ \cup {[id |-> dwm.registrations + 1, source |-> sourceHwnd]},
     !.registrations = @ + 1,
     !.peak = IF Cardinality(dwm.mirrors) + 1 > @
              THEN Cardinality(dwm.mirrors) + 1 ELSE @]

\* DwmUnregisterThumbnail
DwmUnregisterThumbnail(dwm, thumbnail) ==
  [dwm EXCEPT !.mirrors = { m \in @ : m.id # thumbnail },
              !.unregistrations = @ + 1]

\* a surface with the window manager's record, as the member functions
\* receive and leave it
OnPlatform(object, dwm) == [object |-> object, dwm |-> dwm]

\* what a member function returns, with the surface as it leaves it
Returned(w, ok, status) ==
  [object |-> w.object, dwm |-> w.dwm, ok |-> ok, status |-> status]

\* InternalRegionAlertCaptureSurface::releaseThumbnail
releaseThumbnail(w) ==
  OnPlatform([w.object EXCEPT !.m_thumbnail = NullThumbnail,
                              !.m_registeredSource = NullHwnd],
             IF w.object.m_thumbnail # NullThumbnail
             THEN DwmUnregisterThumbnail(w.dwm, w.object.m_thumbnail)
             ELSE w.dwm)

\* cleanup: delete m_hostWidget; the mirrors still registered on the host
\* window lose their destination
DeleteHostWidget(w) ==
  OnPlatform([w.object EXCEPT !.m_hostWidget = FALSE],
             [w.dwm EXCEPT !.orphaned = @ \cup w.dwm.mirrors])

\* InternalRegionAlertCaptureSurface::cleanup
cleanup(w) ==
  IF w.object.m_hostWidget
  THEN DeleteHostWidget(releaseThumbnail(w))
  ELSE releaseThumbnail(w)

\* InternalRegionAlertCaptureSurface::ensureHost; api.hostCreated tells
\* whether the new widget has a valid native window
ensureHost(w, api) ==
  IF w.object.m_hostWidget THEN Returned(w, TRUE, "")
  ELSE IF ~api.hostCreated
  THEN Returned(cleanup(OnPlatform([w.object EXCEPT !.m_hostWidget = TRUE], w.dwm)),
                FALSE, "host_window_create_failed")
  ELSE Returned(OnPlatform([w.object EXCEPT !.m_hostWidget = TRUE], w.dwm), TRUE, "")

\* the outcome of ensureThumbnail past the test for the registered source
RegisterMirror(released, sourceHwnd, api) ==
  IF ~api.destinationValid
  THEN Returned(released, FALSE, "destination_window_invalid")
  ELSE IF ~api.registered
  THEN Returned(OnPlatform([released.object EXCEPT !.m_thumbnail = NullThumbnail,
                                                   !.m_registeredSource = NullHwnd],
                           released.dwm),
                FALSE, "DwmRegisterThumbnail:hr")
  ELSE Returned(OnPlatform([released.object EXCEPT
                              !.m_thumbnail = released.dwm.registrations + 1,
                              !.m_registeredSource = sourceHwnd],
                           DwmRegisterThumbnail(released.dwm, sourceHwnd)),
                TRUE, "")

\* ensureThumbnail as it would be if it registered the new mirror without
\* releasing the one it holds
ensureThumbnail_KeepingOldMirror(w, sourceHwnd, api) ==
  IF w.object.m_thumbnail # NullThumbnail /\ w.object.m_registeredSource = sourceHwnd
  THEN Returned(w, TRUE, "")
  ELSE RegisterMirror(w, sourceHwnd, api)

\* InternalRegionAlertCaptureSurface::ensureThumbnail
ensureThumbnail(w, sourceHwnd, api) ==
  IF w.object.m_thumbnail # NullThumbnail /\ w.object.m_registeredSource = sourceHwnd
  THEN Returned(w, TRUE, "")
  ELSE RegisterMirror(releaseThumbnail(w), sourceHwnd, api)

\* ensureReady: DwmUpdateThumbnailProperties on the mirror ensureThumbnail left
UpdatedOrNot(mirrored, api) ==
  IF ~mirrored.ok THEN mirrored
  ELSE IF ~api.updated
  THEN Returned(mirrored, FALSE, "DwmUpdateThumbnailProperties:hr")
  ELSE Returned(mirrored, TRUE, "ok")

\* ensureReady from ensureThumbnail on
MirrorAndUpdate(hosted, sourceHwnd, api) ==
  IF ~hosted.ok THEN hosted
  ELSE UpdatedOrNot(ensureThumbnail(hosted, sourceHwnd, api), api)

\* InternalRegionAlertCaptureSurface::ensureReady with its member functions
ensureReadyOnPlatform(w, request, api) ==
  IF request.sourceHwnd = NullHwnd \/ ~request.isWindow
  THEN Returned(w, FALSE, "source_window_invalid")
  ELSE IF request.regionSide <= 0
  THEN Returned(w, FALSE, "source_region_invalid")
  ELSE IF request.captureSide <= 0
  THEN Returned(w, FALSE, "capture_size_invalid")
  ELSE MirrorAndUpdate(ensureHost(w, api), request.sourceHwnd, api)

\* the calls of ensureReady explored: source windows, region and capture sizes
SurfaceRequests ==
  [sourceHwnd : {NullHwnd, 1, 2}, isWindow : BOOLEAN,
   regionSide : {0, kMinRegionPixelSize}, captureSide : {0, kMinRegionPixelSize}]

\* what the platform answers: the host's native window is created, it is
\* still a window when the mirror is registered, DwmRegisterThumbnail and
\* DwmUpdateThumbnailProperties succeed
SurfacePlatforms ==
  [hostCreated : BOOLEAN, destinationValid : BOOLEAN, registered : BOOLEAN,
   updated : BOOLEAN]

SurfaceCall(op, sourceHwnd, ok, status) ==
  [op |-> op, sourceHwnd |-> sourceHwnd, ok |-> ok, status |-> status]

AfterCall(r, call) == [object |-> r.object, dwm |-> r.dwm, call |-> call]

\* a call of ensureReady on the surface
SurfaceEnsureReady ==
  /\ captureSurface.object.alive
  /\ captureSurface.dwm.registrations < MaxRegistrations
  /\ \E request \in SurfaceRequests, api \in SurfacePlatforms :
       \E r \in {ensureReadyOnPlatform(captureSurface, request, api)} :
          captureSurface' =
            AfterCall(r, SurfaceCall("ensureReady", request.sourceHwnd, r.ok, r.status))
  /\ UNCHANGED <<monitorVars, lastCall, eventLoop, locale>>

\* ~InternalRegionAlertCaptureSurface
SurfaceDestroyed ==
  /\ captureSurface.object.alive
  /\ \E r \in {cleanup(captureSurface)} :
       captureSurface' =
         AfterCall(OnPlatform([r.object EXCEPT !.alive = FALSE], r.dwm),
                   SurfaceCall("destructor", NullHwnd, TRUE, ""))
  /\ UNCHANGED <<monitorVars, lastCall, eventLoop, locale>>

\* ensureInternalCaptureSurface constructs the next surface
SurfaceCreated ==
  /\ ~captureSurface.object.alive
  /\ captureSurface' =
       AfterCall(OnPlatform(SurfaceConstructed.object, captureSurface.dwm),
                 SurfaceConstructed.call)
  /\ UNCHANGED <<monitorVars, lastCall, eventLoop, locale>>

NextSurface == SurfaceEnsureReady \/ SurfaceDestroyed \/ SurfaceCreated

SpecSurface == Init /\ [][NextSurface]_vars

-----------------------------------------------------------------------------
(* Vocabulary of the properties *)

\* every effective key a configuration can give a rule
RuleKeys ==
  UNION { ActiveRuleKeys(cfg.regionAlertRules) :
            cfg \in Configs \cup ConfigsRules \cup ConfigsCapture
                     \cup ConfigsReentrant \cup ConfigsRegions
                     \cup ConfigsSkipped \cup ConfigsThresholds
                     \cup ConfigsTimer }

\* the state an evaluation meets under a key (operator[] default on a miss)
StateOf(states, key) ==
  IF key \in DOMAIN states THEN states[key] ELSE DefaultRuleState

\* the evaluations of a key recorded in a tick's log
EntriesOf(log, key) == { log[i] : i \in { j \in 1..Len(log) : log[j].ruleKey = key } }

\* the number of events a tick emitted for a key
AlertCount(events, key) ==
  Cardinality({ i \in 1..Len(events) : events[i].ruleKey = key })

\* a step that is a tick: every tick reads a later clock value
TickStep == now' # now

\* the threshold a key's rule is evaluated with, by the rule list in force
ThresholdsOf(rules, key) ==
  { IF rules[i].thresholdPercent < 1 THEN 1
    ELSE IF rules[i].thresholdPercent > 100 THEN 100
    ELSE rules[i].thresholdPercent :
      i \in { j \in 1..Len(rules) : effectiveRuleKey(rules[j]) = key } }

\* the recorded score of an evaluation meets the clamped threshold of its rule
ScoredAtOrAbove(entry, rules) ==
  /\ entry.kind = "compared"
  /\ \E t \in ThresholdsOf(rules, entry.ruleKey) :
        entry.score.num >= t * entry.score.den

-----------------------------------------------------------------------------
(* Properties *)

\* C1: for a rule with a baseline, a streak of 0 and no cooldown running, the
\* first of two consecutive ticks that score at or above the clamped threshold
\* against the stored baseline emits nothing, and the second emits exactly one
\* regionAlertTriggered event.
C1_TriggerOnSecondTick ==
  [][TickStep =>
       \A k \in RuleKeys : \A e \in EntriesOf(evalLog', k) :
         ScoredAtOrAbove(e, m_rules) =>
           /\ ( /\ StateOf(m_ruleStateById, k).consecutiveFramesAboveThreshold = 0
                /\ now' >= StateOf(m_ruleStateById, k).cooldownUntilMs )
                => /\ AlertCount(emitted', k) = 0
                   /\ m_ruleStateById'[k].consecutiveFramesAboveThreshold = 1
           /\ ( \E f \in EntriesOf(evalLog, k) :
                   /\ f.kind = "compared" /\ f.isAboveThreshold
                   /\ f.streakBefore = 0 /\ ~f.inCooldown )
                => AlertCount(emitted', k) = 1
  ]_vars

\* C1 witness: a tick has triggered on the second above-threshold score in a row
C1_Witness ==
  \E i \in 1..Len(evalLog) :
     /\ evalLog[i].kind = "compared" /\ evalLog[i].triggered
     /\ evalLog[i].streakBefore = 1
     /\ Len(emitted) = 1

\* C2: while the deadline T stored in a rule's cooldownUntilMs (set by a
\* trigger) lies after a tick's timestamp, the tick emits no alert for the
\* rule, also when it captures and scores at or above the threshold; every
\* alert is emitted at a timestamp >= T, and a tick at exactly T is not
\* treated as cooling down: its score at or above the threshold counts.
C2_NoAlertBeforeDeadline ==
  [][TickStep =>
       \A k \in RuleKeys :
         LET T == StateOf(m_ruleStateById, k).cooldownUntilMs
         IN /\ now' < T => AlertCount(emitted', k) = 0
            /\ AlertCount(emitted', k) > 0 => now' >= T
            /\ \A e \in EntriesOf(evalLog', k) :
                 (ScoredAtOrAbove(e, m_rules) /\ now' = T) =>
                   \/ AlertCount(emitted', k) = 1
                   \/ m_ruleStateById'[k].consecutiveFramesAboveThreshold =
                        StateOf(m_ruleStateById, k).consecutiveFramesAboveThreshold + 1
  ]_vars

\* C2 witness: a tick inside the cooldown compared, scored at or above the
\* threshold and stayed silent
C2_Witness ==
  \E i \in 1..Len(evalLog) :
     /\ evalLog[i].kind = "compared" /\ evalLog[i].isAboveThreshold
     /\ evalLog[i].cooldownUntilBefore > now
     /\ emitted = <<>>

\* C3 as stated: while a rule stays in the rule list and monitoring stays
\* enabled, an alert for its key is never emitted before the end of the window
\* (timestamp + cooldownMs) opened by the key's previous alert, whatever ticks
\* lie in between.
C3_WindowNeverCancelled ==
  [][TickStep =>
       \A k \in RuleKeys :
         AlertCount(emitted', k) > 0 => now' >= HistoryOf(history, k).windowUntil
  ]_vars

\* C3 amended: an alert for a key is emitted before the end of the window
\* opened by the key's previous alert only if three consecutive capture
\* failures reset the rule's state in between; successful ticks, pipeline-key
\* changes and shorter runs of failures neither shorten nor cancel the window.
C3_WindowCancelledOnlyByFailureReset ==
  [][TickStep =>
       \A k \in RuleKeys :
         AlertCount(emitted', k) > 0 =>
           \/ now' >= HistoryOf(history, k).windowUntil
           \/ HistoryOf(history, k).cancelled
  ]_vars

\* C3 witness: a second alert of a key, emitted after a window that a
\* pipeline-key change and a capture failure did not shorten
C3_Witness ==
  \E i \in 1..Len(evalLog) :
     /\ evalLog[i].triggered
     /\ evalLog[i].cooldownUntilBefore > 0
     /\ now >= evalLog[i].cooldownUntilBefore

\* C4: when the pipeline key of a rule's successful capture differs from the
\* key stored in its state, the tick makes no comparison and emits no alert
\* whatever the frame shows: the baseline becomes the new frame, the streak 0
\* and the stored key the new key.
C4_PipelineChangeReinitialises ==
  [][TickStep =>
       \A k \in RuleKeys : \A e \in EntriesOf(evalLog', k) :
         ( /\ e.kind # "capture_failed"
           /\ e.captureKey # StateOf(m_ruleStateById, k).capturePipelineKey )
         => /\ e.kind = "baseline_initialized"
            /\ AlertCount(emitted', k) = 0
            /\ ~isNull(e.frame)
            /\ m_ruleStateById'[k].baselineFrame = e.frame
            /\ m_ruleStateById'[k].consecutiveFramesAboveThreshold = 0
            /\ m_ruleStateById'[k].capturePipelineKey = e.captureKey
  ]_vars

\* C4 witness: a rule that had a baseline and a streak of 1 met a capture from
\* another pipeline and was re-initialised
C4_Witness ==
  \E i \in 1..Len(evalLog) :
     /\ evalLog[i].kind = "baseline_initialized"
     /\ evalLog[i].pipelineChanged /\ evalLog[i].hadBaseline
     /\ evalLog[i].streakBefore = 1

\* C5: when a capture failure brings consecutiveCaptureFailures to 3, the same
\* call leaves the rule's entry in the map with no baseline, streak 0,
\* cooldownUntilMs 0, failure counter 0 and an empty pipeline key, from any
\* prior state of the rule.
C5_FailureResetClearsState ==
  [][TickStep =>
       \A k \in RuleKeys : \A e \in EntriesOf(evalLog', k) :
         ( /\ e.kind = "capture_failed"
           /\ StateOf(m_ruleStateById, k).consecutiveCaptureFailures + 1 = 3 )
         => /\ k \in DOMAIN m_ruleStateById'
            /\ isNull(m_ruleStateById'[k].baselineFrame)
            /\ m_ruleStateById'[k].consecutiveFramesAboveThreshold = 0
            /\ m_ruleStateById'[k].cooldownUntilMs = 0
            /\ m_ruleStateById'[k].consecutiveCaptureFailures = 0
            /\ m_ruleStateById'[k].capturePipelineKey = <<>>
  ]_vars

\* C5 witness: the third failure in a row met a rule that was cooling down
C5_Witness ==
  \E i \in 1..Len(evalLog) :
     /\ evalLog[i].kind = "capture_failed" /\ evalLog[i].stateReset
     /\ evalLog[i].hadBaseline
     /\ evalLog[i].cooldownUntilBefore > now
     /\ m_ruleStateById[evalLog[i].ruleKey].cooldownUntilMs = 0

\* C6: a tick with now < cooldownUntilMs that compares emits no alert, whatever
\* the score; it leaves the streak at 0, the baseline equal to the current
\* frame and cooldownUntilMs unchanged.
C6_CooldownAbsorbs ==
  [][TickStep =>
       \A k \in RuleKeys : \A e \in EntriesOf(evalLog', k) :
         ( /\ e.kind = "compared"
           /\ now' < StateOf(m_ruleStateById, k).cooldownUntilMs )
         => /\ AlertCount(emitted', k) = 0
            /\ m_ruleStateById'[k].consecutiveFramesAboveThreshold = 0
            /\ m_ruleStateById'[k].baselineFrame = e.frame
            /\ m_ruleStateById'[k].cooldownUntilMs =
                 StateOf(m_ruleStateById, k).cooldownUntilMs
  ]_vars

\* C6 witness: a change seen during the cooldown was absorbed into the baseline
C6_Witness ==
  \E i \in 1..Len(evalLog) :
     /\ evalLog[i].kind = "compared" /\ evalLog[i].isAboveThreshold
     /\ evalLog[i].inCooldown /\ ~evalLog[i].triggered
     /\ m_ruleStateById[evalLog[i].ruleKey].baselineFrame = evalLog[i].frame
     /\ m_ruleStateById[evalLog[i].ruleKey].consecutiveFramesAboveThreshold = 0
     /\ m_ruleStateById[evalLog[i].ruleKey].cooldownUntilMs > now

\* the tick is the rule's first at or after the deadline of its cooldown: the
\* previous tick lay before the deadline, or was the trigger that set a
\* deadline equal to its own timestamp (cooldownMs = 0)
FirstTickAfterExpiry(k) ==
  LET T == StateOf(m_ruleStateById, k).cooldownUntilMs
  IN /\ T > 0
     /\ now' >= T
     /\ \/ now < T
        \/ now = T /\ \E f \in EntriesOf(evalLog, k) : f.triggered

\* C7: the first tick of a rule at or after the expiry of its cooldown emits
\* no alert: the rule enters it with a streak of 0, and an above-threshold
\* score, measured against the baseline absorbed during the cooldown, only
\* starts a streak of 1 and keeps that baseline.
C7_NoAlertOnFirstTickAfterExpiry ==
  [][TickStep =>
       \A k \in RuleKeys :
         FirstTickAfterExpiry(k) =>
           /\ AlertCount(emitted', k) = 0
           /\ StateOf(m_ruleStateById, k).consecutiveFramesAboveThreshold = 0
           /\ \A e \in EntriesOf(evalLog', k) :
                ScoredAtOrAbove(e, m_rules) =>
                  /\ e.score = changedPercent(
                                 StateOf(m_ruleStateById, k).baselineFrame, e.frame)
                  /\ m_ruleStateById'[k].consecutiveFramesAboveThreshold = 1
                  /\ m_ruleStateById'[k].baselineFrame =
                       StateOf(m_ruleStateById, k).baselineFrame
  ]_vars

\* C7 witness: a tick exactly at the deadline scored at or above the threshold
\* and did not trigger
C7_Witness ==
  \E i \in 1..Len(evalLog) :
     /\ evalLog[i].kind = "compared" /\ evalLog[i].isAboveThreshold
     /\ evalLog[i].cooldownUntilBefore = now
     /\ ~evalLog[i].triggered
     /\ emitted = <<>>

\* C8: a tick emits at most one event per rule, exactly when the rule's
\* evaluation triggers, and at the end of that tick the rule has
\* cooldownUntilMs = now + cooldownMs (cooldownMs within [0, 60000]), streak 0
\* and the triggering frame as baseline; the event carries the trimmed
\* character name, the rule's id and label and the score.
C8_TriggerSetsCooldown ==
  [][TickStep =>
       \A k \in RuleKeys :
         /\ AlertCount(emitted', k) <= 1
         /\ AlertCount(emitted', k) = 1 <=>
              \E e \in EntriesOf(evalLog', k) : e.triggered
         /\ \A e \in EntriesOf(evalLog', k) :
              e.triggered =>
                /\ m_cooldownMs \in 0..60000
                /\ m_ruleStateById'[k].cooldownUntilMs = now' + m_cooldownMs
                /\ m_ruleStateById'[k].consecutiveFramesAboveThreshold = 0
                /\ m_ruleStateById'[k].baselineFrame = e.frame
                /\ \A j \in 1..Len(emitted') :
                     emitted'[j].ruleKey = k =>
                       /\ emitted'[j].scorePercent = e.score
                       /\ emitted'[j].characterName =
                            trimmed(m_rules[e.index].characterName)
                       /\ emitted'[j].ruleId = m_rules[e.index].id
                       /\ emitted'[j].label = m_rules[e.index].label
  ]_vars

\* C8 witness: the state right after a trigger under a cooldown of 700 ms
C8_Witness ==
  /\ Len(emitted) = 1
  /\ m_cooldownMs = 700
  /\ emitted[1].ruleKey \in DOMAIN m_ruleStateById
  /\ m_ruleStateById[emitted[1].ruleKey].cooldownUntilMs = now + 700

\* C9: a tick that compares replaces the baseline by the current frame, except
\* exactly when the score is at or above the threshold, the rule is not
\* cooling down and the incremented streak is below 2: then the baseline is
\* kept.
C9_BaselineReplacement ==
  [][TickStep =>
       \A k \in RuleKeys : \A e \in EntriesOf(evalLog', k) :
         e.kind = "compared" =>
           IF /\ ScoredAtOrAbove(e, m_rules)
              /\ now' >= StateOf(m_ruleStateById, k).cooldownUntilMs
              /\ StateOf(m_ruleStateById, k).consecutiveFramesAboveThreshold + 1 < 2
           THEN /\ m_ruleStateById'[k].baselineFrame =
                     StateOf(m_ruleStateById, k).baselineFrame
                /\ m_ruleStateById'[k].baselineFrame # e.frame
           ELSE m_ruleStateById'[k].baselineFrame = e.frame
  ]_vars

\* C9 witness: a first above-threshold tick left the pre-change baseline in place
C9_Witness ==
  \E i \in 1..Len(evalLog) :
     /\ evalLog[i].kind = "compared" /\ evalLog[i].isAboveThreshold
     /\ ~evalLog[i].inCooldown /\ ~evalLog[i].triggered
     /\ evalLog[i].ruleKey \in DOMAIN m_ruleStateById
     /\ m_ruleStateById[evalLog[i].ruleKey].consecutiveFramesAboveThreshold = 1
     /\ m_ruleStateById[evalLog[i].ruleKey].baselineFrame # evalLog[i].frame

\* C10: a tick whose successful capture meets a state without baseline, or
\* with a baseline of other dimensions, adopts the frame as baseline, sets the
\* streak to 0, compares nothing and emits nothing; and every alert of a rule
\* comes at the third or a later successful capture since its state last had
\* no baseline.
C10_BaselineInitialisation ==
  [][TickStep =>
       \A k \in RuleKeys :
         /\ \A e \in EntriesOf(evalLog', k) :
              ( /\ e.kind \in {"baseline_initialized", "compared"}
                /\ \/ isNull(StateOf(m_ruleStateById, k).baselineFrame)
                   \/ sizeOf(StateOf(m_ruleStateById, k).baselineFrame)
                        # sizeOf(e.frame) )
              => /\ e.kind = "baseline_initialized"
                 /\ m_ruleStateById'[k].baselineFrame = e.frame
                 /\ m_ruleStateById'[k].consecutiveFramesAboveThreshold = 0
                 /\ AlertCount(emitted', k) = 0
         /\ AlertCount(emitted', k) > 0 => HistoryOf(history', k).captures >= 3
  ]_vars

\* C10 witness: the first capture after a failure reset only set the baseline
C10_Witness ==
  \E i \in 1..Len(evalLog) :
     /\ evalLog[i].kind = "baseline_initialized"
     /\ ~evalLog[i].hadBaseline
     /\ HistoryOf(history, evalLog[i].ruleKey).cancelled
     /\ HistoryOf(history, evalLog[i].ruleKey).captures = 1
     /\ emitted = <<>>

-----------------------------------------------------------------------------
(* Properties of rule lists: SpecRules *)

\* the positions of the rules a tick evaluates
EvaluatedPositions(rules) == { i \in 1..Len(rules) : IsEvaluated(rules[i]) }

\* the evaluation of the rule at position i on its own: from the rule states
\* and pruned surfaces the tick starts with, with no other rule evaluated
EvaluatedAlone(i, envs, tickNow) ==
  EvaluateRule([states |-> m_ruleStateById, emitted |-> <<>>, log |-> <<>>,
                surfaces |-> pruneStaleInternalCaptureSurfaces(
                               m_internalCaptureSurfacesByCharacter,
                               ActiveCharacterKeys(m_rules))],
               i, m_rules[i], envs[i], tickNow, m_cooldownMs, m_characterWindows)

\* C11: a tick evaluates each enabled rule with a non-blank character name
\* exactly once and in list order; what it does to a rule's state is what the
\* evaluation of that rule alone would do, whatever happened to the other
\* rules; states of keys not evaluated stay as they are; the timer keeps
\* running.
C11_EachRuleEvaluatedOnce ==
  [][(TickStep /\ m_enabled /\ m_rules # <<>>) =>
       LET positions == EvaluatedPositions(m_rules) IN
       /\ Len(evalLog') = Cardinality(positions)
       /\ \A j \in 1..Len(evalLog') : evalLog'[j].index \in positions
       /\ \A j, k \in 1..Len(evalLog') :
             j < k => evalLog'[j].index < evalLog'[k].index
       /\ \A i \in positions :
             LET key == effectiveRuleKey(m_rules[i])
                 alone == EvaluatedAlone(i, tickInputs', now')
             IN /\ key \in DOMAIN m_ruleStateById'
                /\ m_ruleStateById'[key] = alone.states[key]
                /\ \E j \in 1..Len(evalLog') : evalLog'[j] = alone.log[1]
       /\ \A key \in DOMAIN m_ruleStateById' :
             key \notin { effectiveRuleKey(m_rules[i]) : i \in positions }
               => /\ key \in DOMAIN m_ruleStateById
                  /\ m_ruleStateById'[key] = m_ruleStateById[key]
       /\ timerActive'
  ]_vars

\* C11 witness: in one tick the first rule met its third capture failure and
\* was reset, and the rule after it raised an alert
C11_Witness ==
  /\ Len(evalLog) = 2
  /\ evalLog[1].stateReset
  /\ evalLog[2].triggered

-----------------------------------------------------------------------------
(* Properties of captures: SpecCapture *)

\* the window handle pollRules resolves for the rule at position i
SourceHwndOf(i) ==
  ResolveSourceHwnd(m_characterWindows, trimmed(m_rules[i].characterName))

\* the rule at position i has no window to capture from: its character
\* resolves to no handle, or the window is invalid or minimized
WindowUnavailable(i, envs) == SourceHwndOf(i) = NullHwnd \/ ~envs[i].windowUsable

\* C12: when a rule's character resolves to no window handle, or its window
\* is invalid or minimized, the tick records a capture failure for the rule:
\* no frame is accepted, nothing is compared, and the baseline stays as it
\* was (unless this failure is the one that resets the state).
C12_UnavailableWindowFails ==
  [][TickStep =>
       \A j \in 1..Len(evalLog') :
         LET e == evalLog'[j] IN
         WindowUnavailable(e.index, tickInputs')
           => /\ e.kind = "capture_failed"
              /\ isNull(e.frame)
              /\ \/ e.stateReset
                 \/ m_ruleStateById'[e.ruleKey].baselineFrame
                      = StateOf(m_ruleStateById, e.ruleKey).baselineFrame
  ]_vars

\* what the capture strategies are given for the rule at position i
EnvAt(i, envs) ==
  [envs[i] EXCEPT !.sourceClientSize =
     IF SourceHwndOf(i) # NullHwnd THEN envs[i].sourceClientSize ELSE Size(0, 0)]

\* the surfaces a tick starts its captures with
SurfacesAtTick ==
  pruneStaleInternalCaptureSurfaces(m_internalCaptureSurfacesByCharacter,
                                    ActiveCharacterKeys(m_rules))

\* the two strategies, each applied on its own to the rule at position i
InternalAttempt(i, envs) ==
  captureFromInternalCroppedThumbnail(
    SurfacesAtTick, trimmed(m_rules[i].characterName), SourceHwndOf(i),
    m_rules[i].regionNormalized, EnvAt(i, envs))

FallbackAttempt(i, envs) ==
  captureFromVisibleThumbnailFallback(m_rules[i].regionNormalized, EnvAt(i, envs))

\* a sub-method of captureClientArea delivers a frame that passes validation
UsableGrab(grab) ==
  /\ grab.fault = ""
  /\ ~isNull(grab.buffer)
  /\ ~isFrameAlmostSolidBlack(grab.buffer)

\* the failure count a capture failure leaves: one more, or 0 after the reset
FailureCounted(before, after) ==
  after.consecutiveCaptureFailures =
    IF before.consecutiveCaptureFailures + 1 >= kCaptureFailureResetThreshold
    THEN 0 ELSE before.consecutiveCaptureFailures + 1

\* C13: the strategies are tried in a fixed order, the internal cropped
\* thumbnail first and the visible thumbnail second, the second only when the
\* first produced no frame; the first success supplies the frame and the
\* pipeline key; when both fail the rule gets one capture failure and nothing
\* is compared. Inside a capture call the sub-methods are tried in a fixed
\* order too: the host window through its own device context, then the screen.
C13_StrategiesInOrder ==
  [][TickStep =>
       \A j \in 1..Len(evalLog') :
         LET e == evalLog'[j]
             env == tickInputs'[e.index]
             internal == InternalAttempt(e.index, tickInputs')
             fallback == FallbackAttempt(e.index, tickInputs')
             before == StateOf(m_ruleStateById, e.ruleKey)
         IN /\ internal.ok =>
                 /\ e.kind \in {"baseline_initialized", "compared"}
                 /\ e.captureKey = trimmed(internal.method)
                 /\ e.frame = preprocessForDiff(internal.image)
                 /\ e.captureKey[3] =
                      IF UsableGrab(env.host.clientDc) THEN "BitBlt(clientDC)"
                      ELSE "BitBlt(screenDC_clientRect)"
            /\ (~internal.ok /\ fallback.ok) =>
                 /\ e.kind \in {"baseline_initialized", "compared"}
                 /\ e.captureKey = trimmed(fallback.method)
                 /\ e.frame = preprocessForDiff(fallback.image)
            /\ (~internal.ok /\ ~fallback.ok) =>
                 /\ e.kind = "capture_failed"
                 /\ isNull(e.frame)
                 /\ FailureCounted(before, m_ruleStateById'[e.ruleKey])
  ]_vars

\* C13 witness: the internal capture was attempted on a usable source window
\* and produced no frame, and the visible thumbnail supplied the frame
C13_Witness ==
  /\ Len(evalLog) = 1
  /\ evalLog[1].kind \in {"baseline_initialized", "compared"}
  /\ evalLog[1].captureKey[1] = "thumbnail_hwnd_capture"
  /\ m_characterWindows # <<>>
  /\ tickInputs[1].windowUsable
  /\ ~tickInputs[1].internal.ok
  /\ tickInputs[1].fallback.ok

\* a sub-method of captureClientArea reads a frame that validation rejects
RejectedGrab(grab) ==
  /\ grab.fault = ""
  /\ isNull(grab.buffer) \/ isFrameAlmostSolidBlack(grab.buffer)

\* every sub-method the internal strategy permits reads a rejected frame from
\* the host window of the surface
HostFramesRejected(env) ==
  /\ env.host.usable
  /\ RejectedGrab(env.host.clientDc)
  /\ RejectedGrab(env.host.screen)

\* the internal strategy of the rule at position i got as far as its call of
\* captureClientArea
InternalCallMade(i, envs) ==
  LET internal == InternalAttempt(i, envs)
  IN internal.ok \/ internal.method[1] \in {"surface_capture_failed",
                                            "captured_frame_too_small"}

\* C14 as stated: when every permitted sub-method of a capture call yields
\* only rejected frames, the rule's tick counts as a capture failure.
C14_RejectedFramesFailTheTick ==
  [][TickStep =>
       \A j \in 1..Len(evalLog') :
         LET e == evalLog'[j]
             env == tickInputs'[e.index]
         IN (InternalCallMade(e.index, tickInputs') /\ HostFramesRejected(env))
              => e.kind = "capture_failed"
  ]_vars

\* C14, amended: captureClientArea never reports success with a frame that
\* fails validation; a near-solid-black frame is rejected for the sub-method
\* that read it and the next permitted sub-method is tried; when every
\* permitted sub-method reads a rejected frame the call fails with its output
\* image unset and the strategy that made the call produces no frame; the
\* tick is a capture failure exactly when no strategy produces a frame.
C14_RejectedFramesFailTheCall ==
  [][TickStep =>
       \A j \in 1..Len(evalLog') :
         LET e == evalLog'[j]
             env == tickInputs'[e.index]
             internal == InternalAttempt(e.index, tickInputs')
             fallback == FallbackAttempt(e.index, tickInputs')
         IN /\ \A outcome \in {env.internal, env.fallback} :
                 IF outcome.ok
                 THEN ~isNull(outcome.image) /\ ~isFrameAlmostSolidBlack(outcome.image)
                 ELSE isNull(outcome.image)
            /\ (env.host.usable /\ RejectedGrab(env.host.clientDc)
                  /\ UsableGrab(env.host.screen))
                 => /\ env.internal.ok
                    /\ env.internal.status = "BitBlt(screenDC_clientRect)"
                    /\ env.internal.image = env.host.screen.buffer
            /\ HostFramesRejected(env) => ~env.internal.ok /\ ~internal.ok
            /\ (env.thumbnailWindow.usable /\ RejectedGrab(env.thumbnailWindow.screen))
                 => ~env.fallback.ok /\ ~fallback.ok
            /\ e.kind = "capture_failed" <=> (~internal.ok /\ ~fallback.ok)
  ]_vars

\* C14 witness: the host window of the surface read black through every
\* permitted sub-method, the internal strategy produced no frame, and the
\* tick went on to accept the frame of the visible thumbnail
C14_Witness ==
  /\ Len(evalLog) = 1
  /\ evalLog[1].kind \in {"baseline_initialized", "compared"}
  /\ evalLog[1].captureKey[1] = "thumbnail_hwnd_capture"
  /\ m_characterWindows # <<>>
  /\ tickInputs[1].windowUsable
  /\ HostFramesRejected(tickInputs[1])
  /\ tickInputs[1].internal.status = "BitBlt(screenDC_clientRect):black_frame"

\* captureFromVisibleThumbnailFallback: the source size the mapping is given
MappingSourceSize(env) ==
  IF env.sourceClientSize.width <= 0 \/ env.sourceClientSize.height <= 0
  THEN Size(env.fallback.image.width, env.fallback.image.height)
  ELSE env.sourceClientSize

\* the region, in source pixels, shares no pixel with the crop
OutsideCrop(region, crop, sourceSize) ==
  LET pixels == regionToPixels(region, sourceSize)
  IN \/ (pixels.x .. pixels.x + pixels.width - 1)
          \cap (crop.left .. crop.right - 1) = {}
     \/ (pixels.y .. pixels.y + pixels.height - 1)
          \cap (crop.top .. crop.bottom - 1) = {}

\* the region of the rule at position i lies outside the aspect-trimmed crop
\* of the thumbnail that was read for it
RegionOutsideTrimmedCrop(i, env) ==
  /\ env.thumbnail.present
  /\ env.fallback.ok
  /\ OutsideCrop(m_rules[i].regionNormalized,
                 TrimmedCrop(env.thumbnail.crop, MappingSourceSize(env),
                             Size(env.fallback.image.width, env.fallback.image.height)),
                 MappingSourceSize(env))

\* C15: when the rule's source region, in source pixels, does not intersect
\* the aspect-trimmed crop of the thumbnail, mapSourceRegionToThumbnailRegion
\* returns an invalid rectangle and the fallback strategy fails; when the
\* fallback is the strategy of the tick, nothing is compared and the rule
\* gets a capture failure.
C15_RegionOutsideCropFails ==
  [][TickStep =>
       \A j \in 1..Len(evalLog') :
         LET e == evalLog'[j]
             env == EnvAt(e.index, tickInputs')
             internal == InternalAttempt(e.index, tickInputs')
             fallback == FallbackAttempt(e.index, tickInputs')
             before == StateOf(m_ruleStateById, e.ruleKey)
         IN RegionOutsideTrimmedCrop(e.index, env) =>
              /\ mapSourceRegionToThumbnailRegion(
                   m_rules[e.index].regionNormalized, env.thumbnail.crop,
                   MappingSourceSize(env),
                   Size(env.fallback.image.width, env.fallback.image.height))
                   = NullRectF
              /\ ~IsValidRectF(NullRectF)
              /\ ~fallback.ok
              /\ fallback.method = <<"thumbnail_mapping_empty">>
              /\ isNull(fallback.image)
              /\ ~internal.ok =>
                   /\ e.kind = "capture_failed"
                   /\ isNull(e.frame)
                   /\ FailureCounted(before, m_ruleStateById'[e.ruleKey])
  ]_vars

\* C15 witness: a thumbnail was read whose crop meets the rule's region
\* before the trim to the thumbnail's aspect ratio and misses it after, the
\* internal strategy had produced no frame, and the tick recorded a failure
C15_Witness ==
  /\ Len(evalLog) = 1
  /\ evalLog[1].kind = "capture_failed"
  /\ evalLog[1].index = 1
  /\ RegionOutsideTrimmedCrop(1, tickInputs[1])
  /\ LET crop == NormalizedEdges(tickInputs[1].thumbnail.crop)
         size == MappingSourceSize(tickInputs[1])
     IN ~OutsideCrop(m_rules[1].regionNormalized,
                     Edges(FloorTimes(ClampUnit(crop.left), size.width),
                           FloorTimes(ClampUnit(crop.top), size.height),
                           CeilTimes(ClampUnit(crop.right), size.width),
                           CeilTimes(ClampUnit(crop.bottom), size.height)),
                     size)

\* C16: every successful capture of a rule sets its consecutiveCaptureFailures
\* to 0, and a capture failure that meets fewer than two failures in a row
\* only counts: it leaves baseline, streak, deadline and pipeline key alone.
\* The failure-driven reset therefore needs three failing ticks of the rule
\* with no successful capture in between.
C16_SuccessClearsFailureCount ==
  [][TickStep =>
       \A j \in 1..Len(evalLog') :
         LET e == evalLog'[j]
             before == StateOf(m_ruleStateById, e.ruleKey)
             after == m_ruleStateById'[e.ruleKey]
         IN /\ before.consecutiveCaptureFailures < kCaptureFailureResetThreshold
            /\ e.kind \in {"baseline_initialized", "compared"}
                 => after.consecutiveCaptureFailures = 0
            /\ (e.kind = "capture_failed"
                  /\ before.consecutiveCaptureFailures
                       < kCaptureFailureResetThreshold - 1)
                 => /\ after = [before EXCEPT !.consecutiveCaptureFailures = @ + 1]
                    /\ ~e.stateReset
            /\ e.stateReset
                 => /\ e.kind = "capture_failed"
                    /\ before.consecutiveCaptureFailures
                         = kCaptureFailureResetThreshold - 1
  ]_vars

\* C16 witness: a rule with a baseline and two capture failures in a row was
\* captured successfully and compared; its count is 0 and its baseline is kept
C16_Witness ==
  /\ Len(evalLog) = 1
  /\ evalLog[1].kind = "compared"
  /\ evalLog[1].ruleKey \in DOMAIN tickStates
  /\ tickStates[evalLog[1].ruleKey].consecutiveCaptureFailures
       = kCaptureFailureResetThreshold - 1
  /\ m_ruleStateById[evalLog[1].ruleKey].consecutiveCaptureFailures = 0
  /\ ~isNull(m_ruleStateById[evalLog[1].ruleKey].baselineFrame)

\* C17: after reloadFromConfig the rule-state map has no entry whose key is
\* not the effective key of some rule of the newly loaded list, and the
\* reload adds no entry; a rule that was removed and is re-added has no entry
\* and its next evaluation starts uninitialised: no baseline, no streak, no
\* cooldown deadline.
C17_ReloadPrunesRuleStates ==
  [][ /\ ~TickStep =>
           /\ DOMAIN m_ruleStateById' \subseteq ActiveRuleKeys(m_rules')
           /\ DOMAIN m_ruleStateById' \subseteq DOMAIN m_ruleStateById
      /\ TickStep =>
           \A j \in 1..Len(evalLog') :
             LET e == evalLog'[j] IN
             e.ruleKey \notin DOMAIN m_ruleStateById
               => /\ ~e.hadBaseline
                  /\ e.streakBefore = 0
                  /\ e.cooldownUntilBefore = 0
                  /\ e.kind \in {"capture_failed", "baseline_initialized"}
                  /\ ~e.triggered
  ]_vars

\* C17 witness: the last tick left both rules with a baseline; since then a
\* reload dropped the first rule and a later one brought it back, so it is in
\* the list without an entry, while the second rule kept its entry throughout
C17_Witness ==
  /\ m_enabled
  /\ \E i, j \in 1..Len(evalLog) :
       /\ evalLog[i].ruleKey = effectiveRuleKey(RuleA)
       /\ evalLog[i].kind \in {"baseline_initialized", "compared"}
       /\ evalLog[j].ruleKey = effectiveRuleKey(RuleB)
       /\ evalLog[j].kind \in {"baseline_initialized", "compared"}
  /\ effectiveRuleKey(RuleA) \in ActiveRuleKeys(m_rules)
  /\ effectiveRuleKey(RuleA) \notin DOMAIN m_ruleStateById
  /\ effectiveRuleKey(RuleB) \in DOMAIN m_ruleStateById
  /\ ~isNull(m_ruleStateById[effectiveRuleKey(RuleB)].baselineFrame)

\* the registrations and host windows that exist for a character key
ResourcesFor(live, key) == { r \in live : r[2] = key }

\* C18: the capture-surface map holds entries only for the normalized
\* (trimmed, lower-cased) character names of currently enabled rules, none
\* while monitoring is off, and one surface per name; the host windows and
\* mirror registrations that exist are exactly those of the surfaces in the
\* map, at most one of each per name, so whatever a prune, a reload or the
\* disabling of the monitor removes is destroyed with its mirror and host;
\* once the monitor is destroyed the map is empty and no host window or
\* mirror registration is left.
C18_SurfacesFollowEnabledRules ==
  LET surfaces == m_internalCaptureSurfacesByCharacter IN
  /\ ~m_enabled => surfaces = <<>>
  /\ ~lifetime.alive => (surfaces = <<>> /\ liveResources = {})
  /\ \A k \in DOMAIN surfaces :
       /\ k # <<>>
       /\ \E i \in 1..Len(m_rules) :
            /\ m_rules[i].enabled
            /\ k = normalizeCharacterKey(m_rules[i].characterName)
  /\ liveResources = UNION { ResourcesOf(k, surfaces[k]) : k \in DOMAIN surfaces }
  /\ \A r \in liveResources :
       /\ r[2] \in DOMAIN surfaces
       /\ Cardinality({ q \in ResourcesFor(liveResources, r[2]) : q[1] = r[1] }) = 1

\* C18 witness: the last tick captured both rules through their surfaces;
\* a reload then removed the first rule, and its surface went with its host
\* window and mirror; the monitor was destroyed after that, and its
\* destructor gave back the host window and the mirror of the second rule's
\* surface, the only one it still held
C18_Witness ==
  /\ ~lifetime.alive
  /\ m_enabled
  /\ \E i, j \in 1..Len(evalLog) :
       /\ evalLog[i].ruleKey = effectiveRuleKey(RuleA)
       /\ evalLog[i].captureKey # <<>>
       /\ evalLog[i].captureKey[1] = "internal_cropped_thumbnail"
       /\ evalLog[j].ruleKey = effectiveRuleKey(RuleB)
       /\ evalLog[j].captureKey # <<>>
       /\ evalLog[j].captureKey[1] = "internal_cropped_thumbnail"
  /\ effectiveRuleKey(RuleA) \notin ActiveRuleKeys(m_rules)
  /\ ResourcesFor(lifetime.released, normalizeCharacterKey(RuleA.characterName)) = {}
  /\ Cardinality(ResourcesFor(lifetime.released,
                              normalizeCharacterKey(RuleB.characterName))) = 2
  /\ m_internalCaptureSurfacesByCharacter = <<>>
  /\ liveResources = {}

\* C20: a reloadFromConfig that keeps monitoring enabled leaves the RuleState
\* (baseline, streak, cooldownUntilMs, failure counter, pipeline key) of every
\* key that is still the effective key of some rule as it was; a permuted
\* list changes no rule state, and a changed cooldownMs or threshold leaves a
\* deadline that is already set where it is.
C20_ReloadKeepsActiveRuleStates ==
  [][(~TickStep /\ m_enabled') =>
       \A k \in DOMAIN m_ruleStateById \cap ActiveRuleKeys(m_rules') :
         /\ k \in DOMAIN m_ruleStateById'
         /\ m_ruleStateById'[k] = m_ruleStateById[k]
  ]_vars

\* C20 witness: the list is the permuted one with the changed threshold and
\* cooldownMs 0, and the first rule still has the deadline and the baseline
\* that a trigger under the earlier cooldown gave it
C20_Witness ==
  /\ m_enabled
  /\ m_cooldownMs = 0
  /\ Len(m_rules) = 3 /\ m_rules[3] = RuleA2 /\ m_rules[1] = RuleB
  /\ effectiveRuleKey(RuleA2) = effectiveRuleKey(RuleA)
  /\ effectiveRuleKey(RuleA) \in DOMAIN m_ruleStateById
  /\ m_ruleStateById[effectiveRuleKey(RuleA)].cooldownUntilMs > now
  /\ ~isNull(m_ruleStateById[effectiveRuleKey(RuleA)].baselineFrame)
  /\ \E i \in 1..Len(evalLog) :
       /\ evalLog[i].index = 1
       /\ evalLog[i].ruleKey = effectiveRuleKey(RuleA)
       /\ evalLog[i].triggered

\* the members a tick reads, as they are before it or as they are after it
Snapshots ==
  { [rules |-> m_rules, cooldownMs |-> m_cooldownMs, windows |-> m_characterWindows,
     states |-> m_ruleStateById],
    [rules |-> m_rules', cooldownMs |-> m_cooldownMs', windows |-> m_characterWindows',
     states |-> PruneRuleStates(m_ruleStateById, ActiveRuleKeys(m_rules'))] }

\* C19: reloadFromConfig and setCharacterWindows are atomic with respect to a
\* tick, also when a handler of regionAlertTriggered issues them while the
\* tick is iterating: what a tick records, emits and leaves in the rule-state
\* map is what the evaluation of all its rules against one snapshot of rule
\* list, cooldown, target map and rule-state map gives, the one before the
\* tick or the one after it.
C19_TickSeesOneSnapshot ==
  [][TickStep =>
       \E snapshot \in Snapshots :
         LET result ==
               EvaluateRules(
                 [states |-> snapshot.states, emitted |-> <<>>, log |-> <<>>,
                  surfaces |-> pruneStaleInternalCaptureSurfaces(
                                 m_internalCaptureSurfacesByCharacter,
                                 ActiveCharacterKeys(snapshot.rules))],
                 1, snapshot.rules, tickInputs', now', snapshot.cooldownMs,
                 snapshot.windows)
         IN /\ evalLog' = result.log
            /\ emitted' = result.emitted
            /\ m_ruleStateById' = result.states
  ]_vars

\* C21: after a reload that redefines a rule's region the rule's state
\* changes with it, whether the rule is keyed by its id or by character,
\* label and region: no tick compares a frame of the rule against a baseline
\* that was captured from another region than the one the rule has now.
C21_BaselineIsOfTheRulesRegion ==
  [][TickStep =>
       \A j \in 1..Len(evalLog') :
         LET e == evalLog'[j] IN
         e.kind = "compared"
           => /\ e.ruleKey \in DOMAIN baselineRegions
              /\ baselineRegions[e.ruleKey] = m_rules[e.index].regionNormalized
  ]_vars

\* C22: no rule state is a dead end. Whatever state a tick finds for a rule,
\* failure resets included: a tick whose capture succeeds leaves the rule with
\* a baseline; the next tick of the rule, if it succeeds with the same pipeline
\* key, is compared against it; and of two consecutive ticks of the rule that
\* score at or above the threshold, the first outside any cooldown, one emits
\* an alert: the second, exactly once, whenever the first did not. (Between
\* the two ticks no reload has dropped the rule's state.)
C22_NoDeadEnd ==
  [][TickStep =>
       \A k \in RuleKeys : \A e \in EntriesOf(evalLog', k) :
         /\ e.kind \in {"baseline_initialized", "compared"}
              => ~isNull(m_ruleStateById'[k].baselineFrame)
         /\ \A f \in EntriesOf(evalLog, k) :
              k \in DOMAIN m_ruleStateById =>
              /\ ( /\ f.kind \in {"baseline_initialized", "compared"}
                   /\ e.kind \in {"baseline_initialized", "compared"}
                   /\ e.captureKey = f.captureKey )
                 => e.kind = "compared"
              /\ ( /\ f.kind = "compared" /\ f.isAboveThreshold
                   /\ ~f.inCooldown /\ ~f.triggered
                   /\ e.kind = "compared" /\ e.isAboveThreshold )
                 => /\ e.triggered
                    /\ AlertCount(emitted', k) = 1
  ]_vars

\* C22 witness: a rule whose state a failure reset had cleared in the middle
\* of a cooldown has a baseline again and, before the cleared deadline, has
\* scored at or above the threshold with the streak now at 1, so that the
\* next such tick alerts
C22_Witness ==
  \E i \in 1..Len(evalLog) :
     LET e == evalLog[i] IN
     /\ e.kind = "compared" /\ e.isAboveThreshold /\ ~e.triggered
     /\ e.streakBefore = 0 /\ e.cooldownUntilBefore = 0
     /\ HistoryOf(history, e.ruleKey).cancelled
     /\ HistoryOf(history, e.ruleKey).windowUntil > now
     /\ m_ruleStateById[e.ruleKey].consecutiveFramesAboveThreshold = 1

\* C23: a tick does nothing on behalf of a rule that is switched off or whose
\* character name is empty after trimming: it records no evaluation (neither
\* a capture nor a failure) and emits no alert for the rule's position, it
\* holds no capture surface for the rule's character, and, no evaluated rule
\* sharing its key, it neither creates a RuleState under the rule's key nor
\* changes the one stored there.
C23_SkippedRulesAreUntouched ==
  [][TickStep =>
       \A i \in 1..Len(m_rules) :
         ~IsEvaluated(m_rules[i]) =>
           LET k == effectiveRuleKey(m_rules[i])
               character == normalizeCharacterKey(m_rules[i].characterName)
               others == EvaluatedPositions(m_rules)
           IN
           /\ \A j \in 1..Len(evalLog') : evalLog'[j].index # i
           /\ \A j \in 1..Len(emitted') : emitted'[j].index # i
           /\ character \in DOMAIN m_internalCaptureSurfacesByCharacter'
                => \E n \in others :
                      normalizeCharacterKey(m_rules[n].characterName) = character
           /\ (\A n \in others : effectiveRuleKey(m_rules[n]) # k)
                => /\ k \in DOMAIN m_ruleStateById' <=> k \in DOMAIN m_ruleStateById
                   /\ k \in DOMAIN m_ruleStateById
                        => m_ruleStateById'[k] = m_ruleStateById[k]
  ]_vars

\* C23 witness: the last tick met the first rule switched off, with a
\* baseline and a streak of 1 stored under its key from the time it was
\* in force; the tick evaluated the second rule only and the stored state of
\* the first is as the tick found it
C23_Witness ==
  /\ Len(m_rules) = 2
  /\ ~m_rules[1].enabled
  /\ Len(evalLog) = 1 /\ evalLog[1].index = 2 /\ evalLog[1].kind = "compared"
  /\ LET k == effectiveRuleKey(m_rules[1]) IN
     /\ k \in DOMAIN m_ruleStateById /\ k \in DOMAIN tickStates
     /\ ~isNull(m_ruleStateById[k].baselineFrame)
     /\ m_ruleStateById[k].consecutiveFramesAboveThreshold = 1
     /\ tickStates[k] = m_ruleStateById[k]

\* C24: every comparison uses the configured threshold brought into 1..100
\* (a value <= 0 counts as 1, a value > 100 as 100): the score is at or above
\* the threshold exactly when it reaches that value, and a score below 1
\* percent, that of identical frames included, is never above the threshold,
\* never triggers and leaves the streak at 0, whatever threshold is configured.
C24_ThresholdIsClamped ==
  [][TickStep =>
       \A j \in 1..Len(evalLog') :
         LET e == evalLog'[j]
             configured == m_rules[e.index].thresholdPercent
             used == IF configured <= 0 THEN 1
                     ELSE IF configured > 100 THEN 100 ELSE configured
         IN e.kind = "compared" =>
              /\ e.isAboveThreshold <=> e.score.num >= used * e.score.den
              /\ e.score.num < e.score.den
                   => /\ ~e.isAboveThreshold /\ ~e.triggered
                      /\ emitted' = <<>>
                      /\ m_ruleStateById'[e.ruleKey].consecutiveFramesAboveThreshold = 0
  ]_vars

\* C24 witness: a rule configured with a threshold of 0 or less, one tick
\* after scoring above the threshold, has compared a frame identical to its
\* baseline: score 0, not above the threshold, streak back at 0
C24_Witness ==
  /\ Len(m_rules) = 1 /\ m_rules[1].thresholdPercent <= 0
  /\ Len(evalLog) = 1
  /\ evalLog[1].kind = "compared" /\ evalLog[1].score.num = 0
  /\ evalLog[1].streakBefore = 1
  /\ ~evalLog[1].isAboveThreshold
  /\ m_ruleStateById[evalLog[1].ruleKey].consecutiveFramesAboveThreshold = 0
  /\ emitted = <<>>

\* C25: the streak counts back-to-back ticks only: a tick of a rule emits an
\* alert only if the rule's tick before it scored at or above the threshold.
C25_AlertOnlyAfterAboveTick ==
  [][TickStep =>
       \A k \in RuleKeys : \A e \in EntriesOf(evalLog', k) :
         e.triggered =>
           \E f \in EntriesOf(evalLog, k) : f.kind = "compared" /\ f.isAboveThreshold
  ]_vars

\* C25 as the code has it: a tick of a rule emits an alert only if the
\* rule's tick before it either scored at or above the threshold, outside a
\* cooldown and without triggering, or was a capture failure that caused no
\* reset and met a streak of 1. Every tick leaves the streak one higher after
\* such a score, as it was after a capture failure short of a reset, and at 0
\* in every other case: after a below-threshold comparison, a baseline
\* (re)initialisation, a trigger, a comparison during cooldown and a reset.
C25_AlertOnlyAfterUnbrokenStreak ==
  [][TickStep =>
       \A k \in RuleKeys : \A e \in EntriesOf(evalLog', k) :
         LET streak == m_ruleStateById'[k].consecutiveFramesAboveThreshold IN
         /\ e.triggered =>
              /\ e.streakBefore = 1
              /\ \E f \in EntriesOf(evalLog, k) :
                   \/ /\ f.kind = "compared" /\ f.isAboveThreshold
                      /\ ~f.inCooldown /\ ~f.triggered
                   \/ /\ f.kind = "capture_failed" /\ ~f.stateReset
                      /\ f.streakBefore = 1
         /\ streak =
              CASE e.kind = "compared" /\ e.isAboveThreshold
                     /\ ~e.inCooldown /\ ~e.triggered -> e.streakBefore + 1
                [] e.kind = "capture_failed" /\ ~e.stateReset -> e.streakBefore
                [] e.kind = "preprocess_failed" /\ ~e.stateReset
                     /\ ~e.pipelineChanged -> e.streakBefore
                [] OTHER -> 0
  ]_vars

\* C25 witness: the last tick raised an alert although the rule's tick before
\* it was a failed capture: it found a failure count of 1 next to a streak of 1
C25_Witness ==
  /\ Len(evalLog) = 1 /\ evalLog[1].triggered
  /\ Len(emitted) = 1
  /\ evalLog[1].ruleKey \in DOMAIN tickStates
  /\ tickStates[evalLog[1].ruleKey].consecutiveCaptureFailures = 1
  /\ tickStates[evalLog[1].ruleKey].consecutiveFramesAboveThreshold = 1

\* C26: changedPercent(f, f) = 0 for every frame f that is not null.
C26_SameFrameScoresZero ==
  ( /\ lastCall.function = "changedPercent" /\ lastCall.returned
    /\ ~isNull(lastCall.args[1])
    /\ lastCall.args[2] = lastCall.args[1] )
  => lastCall.result.num = 0

\* C26 witness: changedPercent has returned 0 for a frame of two pixels
\* compared with itself
C26_Witness ==
  /\ lastCall.function = "changedPercent" /\ lastCall.returned
  /\ lastCall.args[2] = lastCall.args[1]
  /\ sizeOf(lastCall.args[1]) = <<2, 1>>
  /\ pixelAt(lastCall.args[1], 0, 0) # pixelAt(lastCall.args[1], 1, 0)
  /\ lastCall.result.num = 0

\* C27: changedPercent returns exactly 100 whenever one of the frames is
\* null or the frames differ in width or height, whatever their pixels are.
C27_IncomparableFramesScoreHundred ==
  ( /\ lastCall.function = "changedPercent" /\ lastCall.returned
    /\ \/ isNull(lastCall.args[1])
       \/ isNull(lastCall.args[2])
       \/ sizeOf(lastCall.args[1]) # sizeOf(lastCall.args[2]) )
  => lastCall.result.num = 100 * lastCall.result.den

\* C27 witness: changedPercent has returned 100 for a row and a column of
\* the same two pixels
C27_Witness ==
  /\ lastCall.function = "changedPercent" /\ lastCall.returned
  /\ sizeOf(lastCall.args[1]) = <<2, 1>>
  /\ sizeOf(lastCall.args[2]) = <<1, 2>>
  /\ pixelAt(lastCall.args[1], 0, 0) = pixelAt(lastCall.args[2], 0, 0)
  /\ pixelAt(lastCall.args[1], 1, 0) = pixelAt(lastCall.args[2], 0, 1)
  /\ lastCall.result = [num |-> 100, den |-> 1]

\* C28: for a region whose left edge lies right of its right edge, or whose
\* top edge lies below its bottom edge, regionToPixels returns the rectangle
\* it returns for the QRectF with those edges swapped, for every reference
\* size.
C28_InvertedEdgesAreSwapped ==
  ( /\ lastCall.function = "regionToPixels" /\ lastCall.returned
    /\ \/ lastCall.args[1].width < 0
       \/ lastCall.args[1].height < 0 )
  => lastCall.result =
       RectFToPixels(WithEdgesSwapped(RegionRectF(lastCall.args[1])),
                     lastCall.args[2])

\* C28 witness: regionToPixels has returned two pixels in each axis for the
\* region from 0.05 back to -0.95 on 20 x 20: the swapped rectangle ends at
\* the double -0.95 + 1.0, which lies above 0.05
C28_Witness ==
  /\ lastCall.function = "regionToPixels" /\ lastCall.returned
  /\ lastCall.args[1] = Region(5000, 5000, -100000, -100000)
  /\ lastCall.args[2] = Size(20, 20)
  /\ lastCall.result = Rect(0, 0, 2, 2)

\* C29: regionToPixels returns the empty rectangle for every reference size
\* whose width or height is 0 or less, whatever the region.
C29_NoSizeNoRectangle ==
  ( /\ lastCall.function = "regionToPixels" /\ lastCall.returned
    /\ \/ lastCall.args[2].width <= 0
       \/ lastCall.args[2].height <= 0 )
  => lastCall.result = NullRect

\* C29 witness: regionToPixels has returned the empty rectangle for a region
\* inside the unit square and a reference size of width 40 and height 0
C29_Witness ==
  /\ lastCall.function = "regionToPixels" /\ lastCall.returned
  /\ lastCall.args[1] = Region(33333, 33333, 25000, 25000)
  /\ lastCall.args[2] = Size(40, 0)
  /\ lastCall.result = NullRect

\* C30: for every reference size of at least 1 x 1 and every region, the
\* rectangle regionToPixels returns has 0 <= left < right <= W and
\* 0 <= top < bottom <= H.
C30_RectangleWithinReference ==
  ( /\ lastCall.function = "regionToPixels" /\ lastCall.returned
    /\ lastCall.args[2].width >= 1 /\ lastCall.args[2].height >= 1 )
  => LET r == lastCall.result IN
     /\ 0 <= r.x /\ r.x < r.x + r.width
     /\ r.x + r.width <= lastCall.args[2].width
     /\ 0 <= r.y /\ r.y < r.y + r.height
     /\ r.y + r.height <= lastCall.args[2].height

\* C30 witness: regionToPixels has returned the last pixel of the last row
\* for a region of no area that lies outside the unit square
C30_Witness ==
  /\ lastCall.function = "regionToPixels" /\ lastCall.returned
  /\ lastCall.args[1] = Region(150000, 150000, 0, 0)
  /\ lastCall.args[2] = Size(40, 3)
  /\ lastCall.result = Rect(39, 2, 1, 1)

\* C31: for two frames of the same size, not null, changedPercent is 100
\* times the number of pixel positions whose values are 20 or more apart,
\* divided by width * height; it lies between 0 and 100; a position whose
\* values are 19 apart is not counted and one whose values are 20 apart is.
C31_ScoreIsShareOfChangedPixels ==
  ( /\ lastCall.function = "changedPercent" /\ lastCall.returned
    /\ ~isNull(lastCall.args[1])
    /\ sizeOf(lastCall.args[1]) = sizeOf(lastCall.args[2]) )
  => LET previous == lastCall.args[1]
         current == lastCall.args[2]
         positions == (0..(previous.width - 1)) \X (0..(previous.height - 1))
         apart(i) == IF pixelAt(current, i[1], i[2]) >= pixelAt(previous, i[1], i[2])
                     THEN pixelAt(current, i[1], i[2]) - pixelAt(previous, i[1], i[2])
                     ELSE pixelAt(previous, i[1], i[2]) - pixelAt(current, i[1], i[2])
         counted == { i \in positions : apart(i) >= 20 }
         score == lastCall.result
     IN /\ score.den > 0
        /\ score.num * (previous.width * previous.height)
             = 100 * Cardinality(counted) * score.den
        /\ 0 <= score.num /\ score.num <= 100 * score.den
        /\ \A i \in positions : apart(i) = 19 => i \notin counted
        /\ \A i \in positions : apart(i) = 20 => i \in counted
        /\ (\A i \in positions : apart(i) <= 19) => score.num = 0
        /\ (\A i \in positions : apart(i) = 20) => score.num = 100 * score.den

\* C31 witness: changedPercent has returned 50 for two frames of two pixels,
\* the first pixels 19 apart and the second 20 apart
C31_Witness ==
  /\ lastCall.function = "changedPercent" /\ lastCall.returned
  /\ lastCall.args[1] = ImageOfPixels(2, 1, <<10, 10>>)
  /\ lastCall.args[2] = ImageOfPixels(2, 1, <<29, 30>>)
  /\ sizeOf(lastCall.args[1]) = sizeOf(lastCall.args[2])
  /\ lastCall.result.num = 50 * lastCall.result.den

\* C32: a tick of a rule whose capture fails and whose failure count stays
\* below 3 changes nothing of the rule's state but the failure count, which
\* grows by one: baseline, streak, cooldownUntilMs and pipeline key are as
\* the tick found them (a rule without an entry gets the default entry with
\* a failure count of 1).
C32_FailureOnlyCounts ==
  [][TickStep =>
       \A i \in 1..Len(evalLog') :
         LET e == evalLog'[i]
             k == e.ruleKey
             found == StateOf(m_ruleStateById, k)
         IN ( /\ e.kind = "capture_failed"
              /\ found.consecutiveCaptureFailures + 1 < 3
              /\ \A j \in 1..Len(evalLog') : j # i => evalLog'[j].ruleKey # k )
            => /\ k \in DOMAIN m_ruleStateById'
               /\ m_ruleStateById'[k] =
                    [found EXCEPT !.consecutiveCaptureFailures = @ + 1]
               /\ m_ruleStateById'[k].baselineFrame = found.baselineFrame
               /\ m_ruleStateById'[k].consecutiveFramesAboveThreshold
                    = found.consecutiveFramesAboveThreshold
               /\ m_ruleStateById'[k].cooldownUntilMs = found.cooldownUntilMs
               /\ m_ruleStateById'[k].capturePipelineKey = found.capturePipelineKey
  ]_vars

\* C32 witness: the last tick of a rule failed to capture for the second
\* time in a row; the rule still has its baseline, its pipeline key and the
\* streak of 1 it had built before
C32_Witness ==
  \E i \in 1..Len(evalLog) :
     LET e == evalLog[i] IN
     /\ e.kind = "capture_failed" /\ ~e.stateReset
     /\ e.hadBaseline /\ e.streakBefore = 1
     /\ e.ruleKey \in DOMAIN m_ruleStateById
     /\ m_ruleStateById[e.ruleKey].consecutiveCaptureFailures = 2
     /\ m_ruleStateById[e.ruleKey].consecutiveFramesAboveThreshold = 1
     /\ ~isNull(m_ruleStateById[e.ruleKey].baselineFrame)
     /\ m_ruleStateById[e.ruleKey].capturePipelineKey # <<>>

\* C33: after every reloadFromConfig the poll interval in force is the
\* configured one brought into 100..10000 ms and the cooldown in force is the
\* configured one brought into 0..60000 ms; with monitoring enabled the poll
\* timer is started anew with that interval, so that the first tick after a
\* reload comes one full interval after the reload; with monitoring disabled
\* the timer is stopped.
C33_ReloadClampsAndRestartsTimer ==
  [][ /\ \A cfg \in ConfigsTimer :
           (reloadFromConfig(cfg) /\ eventLoop'.clock = eventLoop.clock) =>
             LET interval == IF cfg.regionAlertsPollIntervalMs < 100 THEN 100
                             ELSE IF cfg.regionAlertsPollIntervalMs > 10000 THEN 10000
                             ELSE cfg.regionAlertsPollIntervalMs
                 cooldown == IF cfg.regionAlertsCooldownMs < 0 THEN 0
                             ELSE IF cfg.regionAlertsCooldownMs > 60000 THEN 60000
                             ELSE cfg.regionAlertsCooldownMs
             IN /\ m_pollIntervalMs' = interval
                /\ m_cooldownMs' = cooldown
                /\ timerActive' = cfg.regionAlertsEnabled
                /\ cfg.regionAlertsEnabled =>
                     /\ eventLoop'.timerDue = eventLoop.clock + interval
                     /\ eventLoop'.restartedByReload
      /\ TickStep =>
           /\ now' = eventLoop.timerDue
           /\ eventLoop.restartedByReload =>
                now' = eventLoop.timerRestartedAt + m_pollIntervalMs
  ]_vars

\* C33 witness: a reload came at 150, halfway through a period of the timer
\* that had begun with the tick at 100; it read a poll interval of 50 ms
\* and a cooldown of -5 ms; the time is now 250, one interval of 100 ms after
\* the reload, and the timer is due
C33_Witness ==
  /\ m_pollIntervalMs = 100 /\ m_cooldownMs = 0
  /\ timerActive
  /\ now = 100
  /\ eventLoop.restartedByReload /\ eventLoop.timerRestartedAt = 150
  /\ eventLoop.timerDue = 250 /\ eventLoop.clock = 250

\* C34: every comparison is between two frames of one capture pipeline. In
\* every state a rule state with a baseline has a pipeline key that is not
\* empty; a tick that stores a frame as baseline stores the pipeline key of
\* its capture with it, a tick that keeps the baseline keeps the key, no
\* other step touches either; and a tick compares (evaluates changedPercent)
\* only when the rule state it finds has a baseline and the pipeline key of
\* the tick's capture.
C34_ComparisonWithinOnePipeline ==
  [][ /\ \A k \in DOMAIN m_ruleStateById' :
           ~isNull(m_ruleStateById'[k].baselineFrame)
             => m_ruleStateById'[k].capturePipelineKey # <<>>
      /\ ~TickStep =>
           \A k \in DOMAIN m_ruleStateById' :
             k \in DOMAIN m_ruleStateById /\ m_ruleStateById'[k] = m_ruleStateById[k]
      /\ TickStep =>
           \A k \in RuleKeys : \A e \in EntriesOf(evalLog', k) :
             LET found == StateOf(m_ruleStateById, k)
                 left == m_ruleStateById'[k]
             IN /\ e.kind = "compared"
                  => /\ ~isNull(found.baselineFrame)
                     /\ found.capturePipelineKey = e.captureKey
                     /\ e.captureKey # <<>>
                /\ ~isNull(left.baselineFrame)
                  => \/ /\ left.baselineFrame = e.frame
                        /\ left.capturePipelineKey = e.captureKey
                     \/ /\ left.baselineFrame = found.baselineFrame
                        /\ left.capturePipelineKey = found.capturePipelineKey
  ]_vars

\* C34 witness: the last tick captured through the fallback pipeline, found
\* a baseline stored under that pipeline's key and compared against it
C34_Witness ==
  /\ Len(evalLog) = 1 /\ evalLog[1].kind = "compared"
  /\ evalLog[1].captureKey # <<>>
  /\ evalLog[1].captureKey[1] = "thumbnail_hwnd_capture"
  /\ evalLog[1].ruleKey \in DOMAIN tickStates
  /\ ~isNull(tickStates[evalLog[1].ruleKey].baselineFrame)
  /\ tickStates[evalLog[1].ruleKey].capturePipelineKey = evalLog[1].captureKey
  /\ m_ruleStateById[evalLog[1].ruleKey].capturePipelineKey = evalLog[1].captureKey

\* C35: between ticks the failure count of every rule state is 0, 1 or 2:
\* the count never rests at the reset threshold 3 or above.
C35_FailureCountBelowThreshold ==
  \A k \in DOMAIN m_ruleStateById :
     m_ruleStateById[k].consecutiveCaptureFailures \in {0, 1, 2}

\* C35 witness: the last tick was the third failed capture in a row of a
\* rule with a baseline; the reset it caused has left the failure count at 0
C35_Witness ==
  \E i \in 1..Len(evalLog) :
     /\ evalLog[i].kind = "capture_failed" /\ evalLog[i].stateReset
     /\ evalLog[i].hadBaseline
     /\ evalLog[i].ruleKey \in DOMAIN m_ruleStateById
     /\ m_ruleStateById[evalLog[i].ruleKey].consecutiveCaptureFailures = 0
     /\ isNull(m_ruleStateById[evalLog[i].ruleKey].baselineFrame)

\* C36: between ticks the streak of every rule state is 0 or 1, and a rule
\* state with a streak of 1 has a baseline and a cooldown deadline that the
\* tick which counted the streak had already reached (cooldownUntilMs is at
\* most the time of the last tick): a streak of 2 never outlasts its tick.
C36_StreakAtMostOne ==
  \A k \in DOMAIN m_ruleStateById :
     LET state == m_ruleStateById[k] IN
     /\ state.consecutiveFramesAboveThreshold \in {0, 1}
     /\ state.consecutiveFramesAboveThreshold = 1
          => /\ state.cooldownUntilMs <= now
             /\ ~isNull(state.baselineFrame)

\* C36 witness: a rule that alerted earlier has, after the end of its
\* cooldown, scored at or above the threshold again and has a streak of 1
C36_Witness ==
  \E i \in 1..Len(evalLog) :
     LET e == evalLog[i] IN
     /\ e.kind = "compared" /\ e.isAboveThreshold /\ ~e.triggered
     /\ e.ruleKey \in DOMAIN m_ruleStateById
     /\ m_ruleStateById[e.ruleKey].consecutiveFramesAboveThreshold = 1
     /\ m_ruleStateById[e.ruleKey].cooldownUntilMs > 0
     /\ m_ruleStateById[e.ruleKey].cooldownUntilMs <= now

\* C37: in every state reached by reloads, window updates and ticks in any
\* order, each key of m_ruleStateById is the effective key of a rule of the
\* current rule list m_rules.
C37_StateKeysAreRuleKeys ==
  \A k \in DOMAIN m_ruleStateById :
     \E i \in 1..Len(m_rules) : effectiveRuleKey(m_rules[i]) = k

\* C37 witness: the last tick evaluated a rule and left a baseline under its
\* key, a reload has since loaded a list without that rule and the key is
\* gone, while the state of a rule that stayed in the list is kept
C37_Witness ==
  /\ m_ruleStateById # <<>>
  /\ \E i \in 1..Len(evalLog) :
        /\ evalLog[i].kind = "baseline_initialized"
        /\ evalLog[i].ruleKey \notin DOMAIN m_ruleStateById
        /\ \A j \in 1..Len(m_rules) : effectiveRuleKey(m_rules[j]) # evalLog[i].ruleKey
  /\ \E k \in DOMAIN m_ruleStateById : ~isNull(m_ruleStateById[k].baselineFrame)

\* C38: in a tick the streak of one rule state is incremented at most once
\* (at most one evaluation of the key scores at or above the threshold and
\* counts), and a tick emits an alert for a key only if the key's streak was
\* already 1 before the tick, that is, only after an earlier tick had scored
\* at or above the threshold; this for every rule list, lists with two
\* enabled rules of one effective key included.
C38_StreakCountsOncePerTick ==
  [][TickStep =>
       \A k \in RuleKeys :
         /\ Cardinality({ i \in 1..Len(evalLog') :
                            /\ evalLog'[i].ruleKey = k
                            /\ evalLog'[i].kind = "compared"
                            /\ evalLog'[i].isAboveThreshold }) <= 1
         /\ AlertCount(emitted', k) > 0
              => StateOf(m_ruleStateById, k).consecutiveFramesAboveThreshold >= 1
  ]_vars

\* C39: whenever monitoring is disabled the poll timer is stopped and the
\* rule-state map and the capture-surface map are empty (no capture resource
\* is live); a reload that enables monitoring starts the timer with an empty
\* rule-state map; a tick that meets an empty rule-state map emits nothing,
\* compares nothing and leaves every state it creates without cooldown and
\* without streak; and a call of pollRules while monitoring is disabled or
\* the rule list is empty emits nothing and changes no member of the monitor.
C39_DisabledMonitorIsIdle ==
  [][/\ ~m_enabled' =>
          /\ ~timerActive'
          /\ m_ruleStateById' = <<>>
          /\ m_internalCaptureSurfacesByCharacter' = <<>>
          /\ liveResources' = {}
     /\ (~m_enabled /\ m_enabled') =>
          /\ timerActive'
          /\ m_ruleStateById' = <<>>
     /\ (TickStep /\ m_ruleStateById = <<>>) =>
          /\ emitted' = <<>>
          /\ \A i \in 1..Len(evalLog') : evalLog'[i].kind # "compared"
          /\ \A k \in DOMAIN m_ruleStateById' :
                /\ m_ruleStateById'[k].cooldownUntilMs = 0
                /\ m_ruleStateById'[k].consecutiveFramesAboveThreshold = 0
     /\ (TickStep /\ (~m_enabled \/ m_rules = <<>>)) =>
          /\ emitted' = <<>>
          /\ UNCHANGED <<m_enabled, m_pollIntervalMs, m_cooldownMs, m_rules,
                         m_characterWindows, m_ruleStateById, timerActive,
                         m_internalCaptureSurfacesByCharacter, liveResources>>
  ]_vars

\* C39 witness: the last tick emitted an alert and so started a cooldown, and
\* a reload that read enabled = false has since stopped the timer and emptied
\* the rule-state map and the capture-surface map
C39_Witness ==
  /\ ~m_enabled /\ ~timerActive
  /\ m_rules # <<>>
  /\ m_ruleStateById = <<>>
  /\ m_internalCaptureSurfacesByCharacter = <<>>
  /\ \E i \in 1..Len(evalLog) : evalLog[i].kind = "compared" /\ evalLog[i].triggered
  /\ Len(emitted) = 1

\* C40: after every call on a capture surface the window manager holds at
\* most one mirror for it (never two at once), namely the one of m_thumbnail,
\* and m_registeredSource is non-null exactly when m_thumbnail is; no host
\* window is destroyed while a mirror is registered on it; the registrations
\* made equal the unregistrations made plus the mirror held, and are equal
\* once the surface is destroyed.  An ensureReady that gets a mirror for the
\* source already registered makes no registration and no unregistration and
\* keeps the handle; for another source it unregisters the mirror held, if
\* any, and registers one; a failed registration leaves no mirror and no
\* recorded source.
C40_OneMirrorPerSurface ==
  [][LET before == captureSurface
         after == captureSurface'
     IN
     /\ Cardinality(after.dwm.mirrors) <= 1
     /\ after.dwm.peak <= 1
     /\ after.dwm.mirrors =
          IF after.object.m_thumbnail # NullThumbnail
          THEN {[id |-> after.object.m_thumbnail,
                 source |-> after.object.m_registeredSource]}
          ELSE {}
     /\ (after.object.m_registeredSource # NullHwnd)
          <=> (after.object.m_thumbnail # NullThumbnail)
     /\ after.dwm.orphaned = {}
     /\ after.dwm.registrations =
          after.dwm.unregistrations + Cardinality(after.dwm.mirrors)
     /\ ~after.object.alive =>
          after.dwm.registrations = after.dwm.unregistrations
     /\ (after # before /\ after.call.op = "ensureReady") =>
          /\ after.call.status \in {"ok", "DwmUpdateThumbnailProperties:hr"} =>
               /\ after.object.m_registeredSource = after.call.sourceHwnd
               /\ IF /\ before.object.m_thumbnail # NullThumbnail
                     /\ before.object.m_registeredSource = after.call.sourceHwnd
                  THEN /\ after.dwm = before.dwm
                       /\ after.object.m_thumbnail = before.object.m_thumbnail
                  ELSE /\ after.dwm.registrations = before.dwm.registrations + 1
                       /\ after.dwm.unregistrations =
                            before.dwm.unregistrations
                              + Cardinality(before.dwm.mirrors)
                       /\ after.object.m_thumbnail # before.object.m_thumbnail
          /\ after.call.status = "DwmRegisterThumbnail:hr" =>
               /\ after.object.m_thumbnail = NullThumbnail
               /\ after.object.m_registeredSource = NullHwnd
               /\ after.dwm.mirrors = {}
               /\ after.dwm.registrations = before.dwm.registrations
  ]_vars

\* C40 witness: a surface that held a mirror of window 1 was asked for
\* window 2: the first mirror is unregistered and the second registered
C40_Witness ==
  /\ captureSurface.call.op = "ensureReady" /\ captureSurface.call.ok
  /\ captureSurface.call.sourceHwnd = 2
  /\ captureSurface.object.m_registeredSource = 2
  /\ captureSurface.object.m_thumbnail = 2
  /\ captureSurface.dwm.registrations = 2
  /\ captureSurface.dwm.unregistrations = 1
  /\ captureSurface.dwm.mirrors = {[id |-> 2, source |-> 2]}

====
